---- MODULE Spec2Model ----
(***************************************************************************)
(* Model of the market-data-source generator (src/generator.rs), its       *)
(* configuration validator (src/config.rs), the regime schedule and        *)
(* controller (src/regimes/controller.rs) and the random-walk kernel the   *)
(* generator drives.                                                       *)
(*                                                                         *)
(* Numeric representation.  Prices are Decimal values in the program; here *)
(* they are integers counting hundredths (100.00 is 10000).  Rates         *)
(* (trend_strength, volatility) are integers counting basis points         *)
(* (0.0001), so 0.005 is 50 and 1.0 is 10000.  volume_volatility is an     *)
(* integer percentage; it is an f64 in the program, whose value NaN is     *)
(* kept as the one value outside the order (f64_lt).  Option<T> is a       *)
(* sequence of length 0 or 1.                                              *)
(***************************************************************************)
EXTENDS Integers, Sequences, FiniteSets, TLC

VARIABLES gen, twin, out, twinOut, op, result, ctl, steps, origin

vars == <<gen, twin, out, twinOut, op, result, ctl, steps, origin>>

(***************************************************************************)
(* Bounds of the model.                                                    *)
(***************************************************************************)
MaxOutputs == 3      \* candles and ticks requested from one generator in all
MaxCount == 2        \* largest count handed to generate_series/generate_ticks
MaxSteps == 7        \* cap on advance() calls in the controller specification
MaxDuration == 2     \* largest segment duration tried
MaxSegments == 2     \* largest number of segments in an installed schedule

None == <<>>
Some(x) == <<x>>
IsSome(o) == Len(o) = 1
Unwrap(o) == o[1]

Max(a, b) == IF a >= b THEN a ELSE b
Min(a, b) == IF a <= b THEN a ELSE b

\* the element of a one-element set; written over {body : x \in {e}} it is
\* body with x standing for the value of e
The(S) == CHOOSE y \in S : TRUE

RECURSIVE SumSeq(_)
SumSeq(s) == IF s = <<>> THEN 0 ELSE Head(s) + SumSeq(Tail(s))

(***************************************************************************)
(* src/types.rs: TimeInterval                                              *)
(***************************************************************************)
seconds(ti) ==
    CASE ti[1] = "OneMinute" -> 60
      [] ti[1] = "FiveMinutes" -> 300
      [] ti[1] = "FifteenMinutes" -> 900
      [] ti[1] = "ThirtyMinutes" -> 1800
      [] ti[1] = "OneHour" -> 3600
      [] ti[1] = "FourHours" -> 14400
      [] ti[1] = "OneDay" -> 86400
      [] ti[1] = "Custom" -> ti[2]

millis(ti) == seconds(ti) * 1000

(***************************************************************************)
(* src/config.rs: GeneratorConfig                                          *)
(***************************************************************************)
RateScale == 10000

default_starting_price == 10000
default_min_price == 100
\* 1e15 in the program; the model's "effectively unbounded" sentinel
default_max_price == 100000000
default_volatility == 200
default_num_points == 100
default_base_volume == 100000
default_volume_volatility == 30

DefaultConfig ==
    [starting_price |-> default_starting_price,
     min_price |-> default_min_price,
     max_price |-> default_max_price,
     trend_direction |-> "Sideways",
     trend_strength |-> 0,
     volatility |-> default_volatility,
     time_interval |-> <<"OneMinute">>,
     num_points |-> default_num_points,
     seed |-> None,
     base_volume |-> default_base_volume,
     volume_volatility |-> default_volume_volatility]

\* f64: NaN compares false with everything
NaN == -2147483647
f64_lt(x, y) == x # NaN /\ y # NaN /\ x < y
f64_ge(x, y) == x # NaN /\ y # NaN /\ x >= y

\* OHLC::is_valid
is_valid(candle) ==
    /\ candle.high >= Max(candle.open, candle.close)
    /\ candle.low <= Min(candle.open, candle.close)
    /\ candle.high >= candle.low
    /\ candle.open > 0 /\ candle.high > 0
    /\ candle.low > 0 /\ candle.close > 0

validate_skips_min_price(c) ==
    IF c.starting_price <= 0 THEN "InvalidPrice"
    ELSE IF c.min_price >= c.max_price THEN "InvalidPrice"
    ELSE IF c.volatility < 0 THEN "InvalidVolatility"
    ELSE IF c.trend_strength < -RateScale \/ c.trend_strength > RateScale
         THEN "InvalidTrend"
    ELSE IF c.num_points = 0 THEN "InvalidParameter"
    ELSE IF c.base_volume = 0 THEN "InvalidParameter"
    ELSE IF f64_lt(c.volume_volatility, 0) THEN "InvalidVolatility"
    ELSE "Ok"

validate(c) ==
    IF c.starting_price <= 0 THEN "InvalidPrice"
    ELSE IF c.min_price <= 0 THEN "InvalidPrice"
    ELSE IF c.min_price >= c.max_price THEN "InvalidPrice"
    ELSE IF c.volatility < 0 THEN "InvalidVolatility"
    ELSE IF c.trend_strength < -RateScale \/ c.trend_strength > RateScale
         THEN "InvalidTrend"
    ELSE IF c.num_points = 0 THEN "InvalidParameter"
    ELSE IF c.base_volume = 0 THEN "InvalidParameter"
    ELSE IF f64_lt(c.volume_volatility, 0) THEN "InvalidVolatility"
    ELSE "Ok"

(***************************************************************************)
(* The seeded PRNG owned by the generator (StdRng): its state is the seed  *)
(* it was created from and the number of samples drawn since.  The normal  *)
(* sampler is a fixed function of that state with values in -2..2.         *)
(***************************************************************************)
seed_from_u64(s) == [seed |-> s, pos |-> 0]

new_rng_ignores_seed(c, entropy) == [seed |-> entropy, pos |-> 0]

new_rng(c, entropy) ==
    IF IsSome(c.seed) THEN seed_from_u64(Unwrap(c.seed))
    ELSE [seed |-> entropy, pos |-> 0]

sample_standard_normal(rng) ==
    ((rng.seed * 3 + rng.pos * 2 + (rng.pos \div 3)) % 5) - 2

draw(rng) == [rng EXCEPT !.pos = @ + 1]

(***************************************************************************)
(* The random-walk kernel driven by the generator: RandomWalkGenerator     *)
(* with new(config) -> Result, next_price(rng), generate_ohlc(rng, k),     *)
(* generate_volume(rng) and reset().                                       *)
(***************************************************************************)
VolumeScale == 100

\* new(config): the distributions reject a negative standard deviation
RandomWalkGenerator_new(c) ==
    IF c.volatility < 0 \/ ~f64_ge(c.volume_volatility, 0) THEN None
    ELSE Some([config |-> c, current_price |-> c.starting_price])

calculate_drift(c) ==
    CASE c.trend_direction = "Bullish" -> c.trend_strength
      [] c.trend_direction = "Bearish" -> -c.trend_strength
      [] c.trend_direction = "Sideways" -> 0

\* next_price(rng): [kernel, rng, price]
next_price(k, rng) ==
    LET drift == calculate_drift(k.config)
        shock == k.config.volatility * sample_standard_normal(rng)
        change == (k.current_price * (drift + shock)) \div RateScale
        moved == k.current_price + change
        bounded == Min(Max(moved, k.config.min_price), k.config.max_price)
    IN  [kernel |-> [k EXCEPT !.current_price = bounded],
         rng |-> draw(rng),
         price |-> bounded]

\* one pass of the tick loop of generate_ohlc over [kernel, rng, high, low]
ohlc_tick(acc) ==
    LET r == next_price(acc.kernel, acc.rng)
    IN  [kernel |-> r.kernel, rng |-> r.rng,
         high |-> Max(acc.high, r.price), low |-> Min(acc.low, r.price)]

RECURSIVE ohlc_ticks(_, _)
ohlc_ticks(acc, n) ==
    IF n = 0 THEN acc
    ELSE The({ohlc_ticks(next, n - 1) : next \in {ohlc_tick(acc)}})

\* generate_ohlc(rng, ticks_per_candle): [kernel, rng, open, high, low, close]
kernel_generate_ohlc(k, rng, ticks) ==
    The({[kernel |-> r.kernel, rng |-> r.rng,
          open |-> k.current_price, high |-> r.high, low |-> r.low,
          close |-> r.kernel.current_price] :
             r \in {ohlc_ticks([kernel |-> k, rng |-> rng,
                                high |-> k.current_price,
                                low |-> k.current_price], ticks)}})

\* generate_volume(rng): [rng, volume]
generate_volume(k, rng) ==
    LET base == k.config.base_volume
        z == sample_standard_normal(rng)
        v == base + (base * k.config.volume_volatility * z) \div VolumeScale
    IN  [rng |-> draw(rng), volume |-> Max(v, 0)]

kernel_reset(k) == [k EXCEPT !.current_price = k.config.starting_price]

(***************************************************************************)
(* src/regimes/controller.rs: RegimeSegment                                *)
(***************************************************************************)
default_config_for_regime(regime) ==
    CASE regime = "Bull" ->
           [DefaultConfig EXCEPT !.trend_direction = "Bullish",
                                 !.trend_strength = 50, !.volatility = 150]
      [] regime = "Bear" ->
           [DefaultConfig EXCEPT !.trend_direction = "Bearish",
                                 !.trend_strength = 70, !.volatility = 250]
      [] regime = "Sideways" ->
           [DefaultConfig EXCEPT !.trend_direction = "Sideways",
                                 !.trend_strength = 0, !.volatility = 100]

RegimeSegment_new(regime, duration) ==
    [regime |-> regime, duration |-> duration,
     config |-> default_config_for_regime(regime),
     transition_duration |-> None]

RegimeSegment_with_config(regime, duration, config) ==
    [regime |-> regime, duration |-> duration, config |-> config,
     transition_duration |-> None]

with_transition(segment, transition_duration) ==
    [segment EXCEPT !.transition_duration = Some(transition_duration)]

(***************************************************************************)
(* src/regimes/controller.rs: RegimeSchedule                               *)
(***************************************************************************)
RegimeSchedule_new(segments) ==
    [segments |-> segments, current_segment_progress |-> 0,
     total_progress |-> 0, repeat |-> FALSE, original_segments |-> segments]

RegimeSchedule_repeating(segments) ==
    [RegimeSchedule_new(segments) EXCEPT !.repeat = TRUE]

\* Option<&RegimeSegment>
current_segment(s) ==
    IF s.segments = <<>> THEN None ELSE Some(Head(s.segments))

schedule_advance_late_pop(s) ==
    LET p == s.current_segment_progress + 1
        t == s.total_progress + 1
    IN  IF s.segments # <<>> /\ p > Head(s.segments).duration
        THEN LET rest == Tail(s.segments)
             IN  [s EXCEPT !.current_segment_progress = 0,
                           !.total_progress = t,
                           !.segments = IF rest = <<>> /\ s.repeat
                                        THEN s.original_segments ELSE rest]
        ELSE [s EXCEPT !.current_segment_progress = p, !.total_progress = t]

schedule_advance(s) ==
    LET p == s.current_segment_progress + 1
        t == s.total_progress + 1
    IN  IF s.segments # <<>> /\ p >= Head(s.segments).duration
        THEN LET rest == Tail(s.segments)
             IN  [s EXCEPT !.current_segment_progress = 0,
                           !.total_progress = t,
                           !.segments = IF rest = <<>> /\ s.repeat
                                        THEN s.original_segments ELSE rest]
        ELSE [s EXCEPT !.current_segment_progress = p, !.total_progress = t]

schedule_is_complete(s) == s.segments = <<>> /\ ~s.repeat

\* a mutant: the segments are restored, the counters are not
schedule_reset_keeps_progress(s) == [s EXCEPT !.segments = s.original_segments]

schedule_reset(s) ==
    [s EXCEPT !.segments = s.original_segments,
              !.current_segment_progress = 0, !.total_progress = 0]

schedule_add_segment(s, segment) ==
    [s EXCEPT !.segments = Append(@, segment),
              !.original_segments = Append(@, segment)]

remaining_segments(s) == Len(s.segments)

total_duration(s) ==
    SumSeq([i \in 1..Len(s.original_segments) |-> s.original_segments[i].duration])

(***************************************************************************)
(* src/regimes/controller.rs: TransitionState.  progress is                *)
(* current_step / duration and is kept as that pair.                       *)
(***************************************************************************)
TransitionState_new(from_config, to_config, duration) ==
    [from_config |-> from_config, to_config |-> to_config,
     duration |-> duration, current_step |-> 0]

\* advance(): [transition, advanced]
transition_advance(t) ==
    IF t.current_step < t.duration
    THEN [transition |-> [t EXCEPT !.current_step = @ + 1], advanced |-> TRUE]
    ELSE [transition |-> t, advanced |-> FALSE]

\* a mutant: the interpolation runs from the target back to the source
interpolate_backwards(from, to, step, duration) ==
    IF duration = 0 THEN from
    ELSE to + ((from - to) * step) \div duration

\* progress is current_step / duration once advance() has run, 0.0 before
interpolate(from, to, step, duration) ==
    IF duration = 0 THEN from
    ELSE from + ((to - from) * step) \div duration

\* a mutant: the direction changes only when the transition completes
direction_switches_at_end(step, duration) == duration > 0 /\ step >= duration

\* progress >= 0.5, progress being current_step / duration (0.0 while
\* advance() has not run)
direction_switches(step, duration) == duration > 0 /\ 2 * step >= duration

interpolated_config(t) ==
    [t.from_config EXCEPT
       !.trend_strength = interpolate(t.from_config.trend_strength,
                                      t.to_config.trend_strength,
                                      t.current_step, t.duration),
       !.volatility = interpolate(t.from_config.volatility,
                                  t.to_config.volatility,
                                  t.current_step, t.duration),
       !.trend_direction = IF direction_switches(t.current_step, t.duration)
                           THEN t.to_config.trend_direction
                           ELSE t.from_config.trend_direction]

transition_is_complete(t) == t.current_step >= t.duration

(***************************************************************************)
(* src/regimes/controller.rs: RegimeController                             *)
(***************************************************************************)
\* a mutant: the segment's whole configuration replaces the base
merge_configs_takes_all(base, regime_specific) == regime_specific

merge_configs(base, regime_specific) ==
    [base EXCEPT !.trend_direction = regime_specific.trend_direction,
                 !.trend_strength = regime_specific.trend_strength,
                 !.volatility = regime_specific.volatility]

RegimeController_new(schedule, base_config) ==
    [schedule |-> schedule,
     current_config |-> IF IsSome(current_segment(schedule))
                        THEN merge_configs(base_config,
                                           Unwrap(current_segment(schedule)).config)
                        ELSE base_config,
     transition |-> None,
     base_config |-> base_config]

\* Option<MarketRegime>
current_regime(c) ==
    IF IsSome(current_segment(c.schedule))
    THEN Some(Unwrap(current_segment(c.schedule)).regime)
    ELSE None

\* the first half of advance(): the active transition, if any
advance_transition(c) ==
    IF IsSome(c.transition)
    THEN LET r == transition_advance(Unwrap(c.transition))
         IN  IF r.advanced
             THEN [c EXCEPT !.current_config = interpolated_config(r.transition),
                            !.transition = IF transition_is_complete(r.transition)
                                           THEN None ELSE Some(r.transition)]
             ELSE c
    ELSE c

controller_advance(c) ==
    LET c1 == advance_transition(c)
        previous_regime == current_regime(c1)
        c2 == [c1 EXCEPT !.schedule = schedule_advance(c1.schedule)]
        segment == current_segment(c2.schedule)
        new_regime == current_regime(c2)
    IN  IF previous_regime # new_regime /\ IsSome(segment)
        THEN LET new_config == merge_configs(c2.base_config, Unwrap(segment).config)
                 td == Unwrap(segment).transition_duration
             IN  IF IsSome(td) /\ Unwrap(td) > 0
                 THEN [c2 EXCEPT !.transition =
                          Some(TransitionState_new(c2.current_config, new_config,
                                                   Unwrap(td)))]
                 ELSE [c2 EXCEPT !.current_config = new_config]
        ELSE c2

\* current_segment_progress() is the fraction <<numerator, denominator>>
schedule_current_segment_progress(s) ==
    IF s.segments # <<>>
    THEN IF Head(s.segments).duration = 0 THEN <<1, 1>>
         ELSE <<s.current_segment_progress, Head(s.segments).duration>>
    ELSE <<1, 1>>

schedule_info(c) ==
    [current_regime |-> current_regime(c),
     current_segment_progress |-> schedule_current_segment_progress(c.schedule),
     total_progress |-> c.schedule.total_progress,
     is_complete |-> schedule_is_complete(c.schedule),
     remaining_segments |-> remaining_segments(c.schedule),
     in_transition |-> IsSome(c.transition)]

set_schedule(c, schedule) ==
    [c EXCEPT !.schedule = schedule,
              !.current_config = IF IsSome(current_segment(schedule))
                                 THEN merge_configs(c.base_config,
                                        Unwrap(current_segment(schedule)).config)
                                 ELSE c.current_config,
              !.transition = None]

controller_add_segment(c, segment) ==
    [c EXCEPT !.schedule = schedule_add_segment(c.schedule, segment)]

controller_reset(c) ==
    LET s == schedule_reset(c.schedule)
    IN  [c EXCEPT !.schedule = s,
                  !.transition = None,
                  !.current_config = IF IsSome(current_segment(s))
                                     THEN merge_configs(c.base_config,
                                            Unwrap(current_segment(s)).config)
                                     ELSE c.current_config]

controller_force_regime(c, regime, duration, transition_duration) ==
    LET segment == with_transition(RegimeSegment_new(regime, duration),
                                   IF IsSome(transition_duration)
                                   THEN Unwrap(transition_duration) ELSE 0)
    IN  set_schedule(c, RegimeSchedule_new(<<segment>>))

(***************************************************************************)
(* src/generator.rs: MarketDataGenerator.  A generator is the record       *)
(* [rng, config, price_generator, current_timestamp, regime_controller].   *)
(* Operations that return a value return a record holding the generator    *)
(* after the call and the value.  The wall clock (SystemTime::now) and the *)
(* OS entropy are inputs of the operations that read them.                 *)
(***************************************************************************)
TicksPerCandle == 10
TickStepMillis == 1000
SpreadBps == 10

NoGenerator == <<>>

\* with_config(config): the generator, or NoGenerator with the error
with_config(config, now, entropy) ==
    IF validate(config) # "Ok"
    THEN [gen |-> NoGenerator, result |-> validate(config)]
    ELSE IF ~IsSome(RandomWalkGenerator_new(config))
    THEN [gen |-> NoGenerator, result |-> "ConstructionError"]
    ELSE [gen |-> [rng |-> new_rng(config, entropy),
                   config |-> config,
                   price_generator |-> Unwrap(RandomWalkGenerator_new(config)),
                   current_timestamp |-> now,
                   regime_controller |-> None],
          result |-> "Ok"]

update_regime_controller(g) ==
    IF IsSome(g.regime_controller)
    THEN LET controller == controller_advance(Unwrap(g.regime_controller))
             new_config == controller.current_config
             new_price_generator == RandomWalkGenerator_new(new_config)
         IN  IF IsSome(new_price_generator)
             THEN [g EXCEPT !.regime_controller = Some(controller),
                            !.config = new_config,
                            !.price_generator = Unwrap(new_price_generator)]
             ELSE [g EXCEPT !.regime_controller = Some(controller)]
    ELSE g

\* generate_ohlc() once the controller is updated (g1) and the kernel has
\* returned the prices (p)
generate_ohlc_candle(g1, p) ==
    LET v == generate_volume(p.kernel, p.rng)
        timestamp == g1.current_timestamp
    IN  [gen |-> [g1 EXCEPT !.rng = v.rng,
                            !.price_generator = p.kernel,
                            !.current_timestamp =
                                @ + millis(g1.config.time_interval)],
         candle |-> [open |-> p.open, high |-> p.high, low |-> p.low,
                     close |-> p.close, volume |-> v.volume,
                     timestamp |-> timestamp]]

\* generate_ohlc(): [gen, candle]
generate_ohlc(g) ==
    The({The({generate_ohlc_candle(g1, p) :
                 p \in {kernel_generate_ohlc(g1.price_generator, g1.rng,
                                             TicksPerCandle)}}) :
            g1 \in {update_regime_controller(g)}})

RECURSIVE generate_series_reversed(_, _)
generate_series_reversed(g, count) ==
    IF count = 0 THEN [gen |-> g, candles |-> <<>>]
    ELSE The({The({[gen |-> rest.gen, candles |-> rest.candles \o <<first.candle>>] :
                      rest \in {generate_series_reversed(first.gen, count - 1)}}) :
                 first \in {generate_ohlc(g)}})

\* generate_series(count): [gen, candles]
RECURSIVE generate_series(_, _)
generate_series(g, count) ==
    IF count = 0 THEN [gen |-> g, candles |-> <<>>]
    ELSE The({The({[gen |-> rest.gen, candles |-> <<first.candle>> \o rest.candles] :
                      rest \in {generate_series(first.gen, count - 1)}}) :
                 first \in {generate_ohlc(g)}})

\* generate_tick(): [gen, tick]
generate_tick(g) ==
    LET p == next_price(g.price_generator, g.rng)
        v == generate_volume(p.kernel, p.rng)
        half_spread == (p.price * SpreadBps) \div (RateScale * 2)
    IN  [gen |-> [g EXCEPT !.rng = v.rng,
                           !.price_generator = p.kernel,
                           !.current_timestamp = @ + TickStepMillis],
         tick |-> [price |-> p.price, volume |-> v.volume,
                   timestamp |-> g.current_timestamp,
                   bid |-> Some(p.price - half_spread),
                   ask |-> Some(p.price + half_spread)]]

\* generate_ticks(count): [gen, ticks]
RECURSIVE generate_ticks(_, _)
generate_ticks(g, count) ==
    IF count = 0 THEN [gen |-> g, ticks |-> <<>>]
    ELSE The({The({[gen |-> rest.gen, ticks |-> <<first.tick>> \o rest.ticks] :
                      rest \in {generate_ticks(first.gen, count - 1)}}) :
                 first \in {generate_tick(g)}})

reset(g, now) ==
    [g EXCEPT !.price_generator = kernel_reset(g.price_generator),
              !.current_timestamp = now,
              !.rng = IF IsSome(g.config.seed)
                      THEN seed_from_u64(Unwrap(g.config.seed)) ELSE @]

set_timestamp_ignored(g, timestamp) == g

set_timestamp(g, timestamp) == [g EXCEPT !.current_timestamp = timestamp]

\* set_config(config): [gen, result]
set_config(g, config) ==
    IF validate(config) # "Ok" THEN [gen |-> g, result |-> validate(config)]
    ELSE IF ~IsSome(RandomWalkGenerator_new(config))
    THEN [gen |-> [g EXCEPT !.config = config], result |-> "ConstructionError"]
    ELSE [gen |-> [g EXCEPT !.config = config,
                            !.price_generator =
                                Unwrap(RandomWalkGenerator_new(config)),
                            !.rng = IF IsSome(config.seed)
                                    THEN seed_from_u64(Unwrap(config.seed))
                                    ELSE @],
          result |-> "Ok"]

enable_regime_control(g, schedule) ==
    [g EXCEPT !.regime_controller = Some(RegimeController_new(schedule, g.config))]

disable_regime_control(g) == [g EXCEPT !.regime_controller = None]

\* Option<ScheduleInfo>
regime_control_info(g) ==
    IF IsSome(g.regime_controller)
    THEN Some(schedule_info(Unwrap(g.regime_controller))) ELSE None

\* a mutant: forcing a regime switches regime control on
force_regime_enabling(g, regime, duration, transition_duration) ==
    [g EXCEPT !.regime_controller =
         Some(controller_force_regime(
                  IF IsSome(@) THEN Unwrap(@)
                  ELSE RegimeController_new(RegimeSchedule_new(<<>>), g.config),
                  regime, duration, transition_duration))]

force_regime(g, regime, duration, transition_duration) ==
    IF IsSome(g.regime_controller)
    THEN [g EXCEPT !.regime_controller =
             Some(controller_force_regime(Unwrap(g.regime_controller), regime,
                                          duration, transition_duration))]
    ELSE g

add_regime_segment(g, segment) ==
    IF IsSome(g.regime_controller)
    THEN [g EXCEPT !.regime_controller =
             Some(controller_add_segment(Unwrap(g.regime_controller), segment))]
    ELSE g

reset_regime_schedule(g) ==
    IF IsSome(g.regime_controller)
    THEN [g EXCEPT !.regime_controller =
             Some(controller_reset(Unwrap(g.regime_controller)))]
    ELSE g

(***************************************************************************)
(* Inputs tried by the specifications.                                     *)
(***************************************************************************)
\* ConfigBuilder::new().seed(1).time_interval(Custom(2)).build()
SeededConfig ==
    [DefaultConfig EXCEPT !.seed = Some(1), !.time_interval = <<"Custom", 2>>]

PlainSegments ==
    {RegimeSegment_new(r, d) : r \in {"Bull", "Bear"}, d \in 0..MaxDuration}

SegmentChoices ==
    PlainSegments \cup {with_transition(RegimeSegment_new("Sideways", 1), 2)}

RECURSIVE SeqsUpTo(_, _)
SeqsUpTo(S, n) ==
    IF n = 0 THEN {<<>>}
    ELSE LET shorter == SeqsUpTo(S, n - 1)
         IN  shorter \cup {Append(q, x) : q \in shorter, x \in S}

ScheduleChoices ==
    {RegimeSchedule_new(q) : q \in SeqsUpTo(SegmentChoices, MaxSegments)}
    \cup {RegimeSchedule_repeating(q) : q \in SeqsUpTo(PlainSegments, MaxSegments)}

\* schedules handed to set_schedule, and segments handed to add_segment
ReplacementSchedules ==
    {RegimeSchedule_new(<<RegimeSegment_new("Bear", 1),
                          with_transition(RegimeSegment_new("Bull", 2), 2)>>),
     RegimeSchedule_repeating(<<RegimeSegment_new("Sideways", 1),
                                RegimeSegment_new("Bull", 1)>>)}

AddedSegments ==
    {RegimeSegment_new("Sideways", 1),
     with_transition(RegimeSegment_new("Bear", 2), 1)}

ForceRegimes == {"Bear", "Sideways"}
ForceDurations == 0..MaxDuration
ForceTransitions == {None, Some(2)}

(***************************************************************************)
(* Specification SpecCtl: a RegimeController driven directly through its   *)
(* public operations.  steps is the caller's log: the number of advance()  *)
(* calls since the schedule was last installed or rewound, whether only    *)
(* advance() was called since, and the arguments of the force_regime call  *)
(* that installed the schedule, if one did.                                *)
(***************************************************************************)
FreshLog == [n |-> 0, pure |-> TRUE, forced |-> None]

NoOrigin == <<>>

CtlInit ==
    /\ ctl \in {RegimeController_new(s, SeededConfig) : s \in ScheduleChoices}
    /\ steps = FreshLog
    /\ gen = NoGenerator /\ twin = NoGenerator
    /\ out = <<>> /\ twinOut = <<>>
    /\ op = "new" /\ result = "Ok"
    /\ origin = NoOrigin

CtlFrame == UNCHANGED <<gen, twin, out, twinOut, result, origin>>

CtlAdvance ==
    /\ steps.n < MaxSteps
    /\ ctl.schedule.total_progress < MaxSteps
    /\ ctl' = controller_advance(ctl)
    /\ steps' = [steps EXCEPT !.n = @ + 1]
    /\ op' = "advance"
    /\ CtlFrame

CtlForceRegime ==
    \E r \in ForceRegimes, d \in ForceDurations, t \in ForceTransitions :
        /\ ctl' = controller_force_regime(ctl, r, d, t)
        /\ steps' = [n |-> 0, pure |-> TRUE, forced |-> Some(<<r, d>>)]
        /\ op' = "force_regime"
        /\ CtlFrame

CtlAddSegment ==
    \E segment \in AddedSegments :
        /\ Len(ctl.schedule.original_segments) <= MaxSegments
        /\ ctl' = controller_add_segment(ctl, segment)
        /\ steps' = [steps EXCEPT !.pure = FALSE]
        /\ op' = "add_segment"
        /\ CtlFrame

CtlReset ==
    /\ ctl' = controller_reset(ctl)
    /\ steps' = FreshLog
    /\ op' = "reset"
    /\ CtlFrame

CtlSetSchedule ==
    \E s \in ReplacementSchedules :
        /\ ctl' = set_schedule(ctl, s)
        /\ steps' = FreshLog
        /\ op' = "set_schedule"
        /\ CtlFrame

CtlNext ==
    \/ CtlAdvance
    \/ CtlForceRegime
    \/ CtlAddSegment
    \/ CtlReset
    \/ CtlSetSchedule

SpecCtl == CtlInit /\ [][CtlNext]_vars

(***************************************************************************)
(* Specifications Spec, SpecRegime and SpecTwin: a MarketDataGenerator     *)
(* driven through its public calls.  Spec drives the calls that need no    *)
(* regime control, SpecRegime the candle calls with the regime-control     *)
(* calls, and SpecTwin drives a second generator (twin) built from the     *)
(* same configuration through the same calls with the same arguments,      *)
(* each generator reading the wall clock and the OS entropy on its own.    *)
(* out and twinOut hold what the last call returned (the candles or        *)
(* ticks, in order), op names the last call, result its Result.  steps.n   *)
(* counts the candles and ticks requested so far; origin is what the       *)
(* caller built the generator from: the configuration last accepted and    *)
(* the schedule last handed to enable_regime_control, if still enabled.    *)
(***************************************************************************)
BoundedConfig ==
    [DefaultConfig EXCEPT !.seed = Some(2), !.min_price = 9000,
                          !.max_price = 11000, !.volatility = 500,
                          !.trend_direction = "Bullish", !.trend_strength = 100,
                          !.time_interval = <<"Custom", 3>>]

\* accepted by validate although starting_price lies above max_price
HighStartConfig == [SeededConfig EXCEPT !.max_price = 5000]

ZeroIntervalConfig == [SeededConfig EXCEPT !.time_interval = <<"Custom", 0>>]

\* no seed: the PRNG is seeded from OS entropy
UnseededConfig == [DefaultConfig EXCEPT !.time_interval = <<"Custom", 2>>]

\* rejected by validate: min_price is not positive
ZeroMinConfig ==
    [SeededConfig EXCEPT !.min_price = 0, !.volatility = 0,
                          !.trend_direction = "Bearish",
                          !.trend_strength = RateScale]

\* accepted by validate although volume_volatility >= 0 does not hold
NaNVolumeConfig == [SeededConfig EXCEPT !.volume_volatility = NaN]

GenConfigs ==
    {SeededConfig, BoundedConfig, HighStartConfig, ZeroIntervalConfig,
     UnseededConfig, ZeroMinConfig, NaNVolumeConfig}

SetConfigs == {BoundedConfig, ZeroMinConfig, NaNVolumeConfig}

RegimeSetConfigs == {BoundedConfig}

NowValues == {1000}
EntropyValues == {3}
\* what the twin reads: the clock may have moved on, the entropy differs
TwinNowValues == {1000, 1007}
TwinEntropyValues == {4}
SetTimestamps == {500}

GenSchedules ==
    {RegimeSchedule_new(<<RegimeSegment_new("Bull", 2),
                          RegimeSegment_new("Bear", 1)>>),
     RegimeSchedule_repeating(<<with_transition(RegimeSegment_new("Bear", 1), 2),
                                RegimeSegment_new("Sideways", 1)>>)}

Constructed == gen # NoGenerator
Twinned == twin # NoGenerator

\* the caller asks for at most MaxOutputs candles and ticks in all
CanGenerate(count) == steps.n + count <= MaxOutputs

Generated(count) ==
    steps' = [steps EXCEPT !.n = @ + count] /\ UNCHANGED <<ctl, origin>>

HasController == Constructed /\ IsSome(gen.regime_controller)

Init ==
    /\ \E c \in GenConfigs, now \in NowValues, entropy \in EntropyValues :
          /\ gen = with_config(c, now, entropy).gen
          /\ result = with_config(c, now, entropy).result
          /\ origin = [config |-> c, schedule |-> None]
    /\ twin = NoGenerator
    /\ out = <<>> /\ twinOut = <<>>
    /\ op = "with_config"
    /\ ctl = RegimeController_new(RegimeSchedule_new(<<>>), DefaultConfig)
    /\ steps = FreshLog

Frame == UNCHANGED <<ctl, steps, origin>>

GenerateOhlc ==
    /\ Constructed
    /\ CanGenerate(1)
    /\ gen' = generate_ohlc(gen).gen
    /\ out' = <<generate_ohlc(gen).candle>>
    /\ twin' = IF Twinned THEN generate_ohlc(twin).gen ELSE twin
    /\ twinOut' = IF Twinned THEN <<generate_ohlc(twin).candle>> ELSE <<>>
    /\ op' = "generate_ohlc" /\ result' = "Ok"
    /\ Generated(1)

GenerateSeries ==
    \E count \in 0..MaxCount :
        /\ Constructed
        /\ CanGenerate(count)
        /\ gen' = generate_series(gen, count).gen
        /\ out' = generate_series(gen, count).candles
        /\ twin' = IF Twinned THEN generate_series(twin, count).gen ELSE twin
        /\ twinOut' = IF Twinned THEN generate_series(twin, count).candles ELSE <<>>
        /\ op' = "generate_series" /\ result' = "Ok"
        /\ Generated(count)

GenerateTick ==
    /\ Constructed
    /\ CanGenerate(1)
    /\ gen' = generate_tick(gen).gen
    /\ out' = <<generate_tick(gen).tick>>
    /\ twin' = IF Twinned THEN generate_tick(twin).gen ELSE twin
    /\ twinOut' = IF Twinned THEN <<generate_tick(twin).tick>> ELSE <<>>
    /\ op' = "generate_tick" /\ result' = "Ok"
    /\ Generated(1)

GenerateTicks ==
    \E count \in 0..MaxCount :
        /\ Constructed
        /\ CanGenerate(count)
        /\ gen' = generate_ticks(gen, count).gen
        /\ out' = generate_ticks(gen, count).ticks
        /\ twin' = IF Twinned THEN generate_ticks(twin, count).gen ELSE twin
        /\ twinOut' = IF Twinned THEN generate_ticks(twin, count).ticks ELSE <<>>
        /\ op' = "generate_ticks" /\ result' = "Ok"
        /\ Generated(count)

Reset ==
    \E now1 \in NowValues, now2 \in TwinNowValues :
        /\ Constructed
        /\ gen' = reset(gen, now1)
        /\ twin' = IF Twinned THEN reset(twin, now2) ELSE twin
        /\ out' = <<>> /\ twinOut' = <<>>
        /\ op' = "reset" /\ result' = "Ok"
        /\ Frame

SetTimestamp ==
    \E timestamp \in SetTimestamps :
        /\ Constructed
        /\ gen' = set_timestamp(gen, timestamp)
        /\ twin' = IF Twinned THEN set_timestamp(twin, timestamp) ELSE twin
        /\ out' = <<>> /\ twinOut' = <<>>
        /\ op' = "set_timestamp" /\ result' = "Ok"
        /\ Frame

SetConfigFrom(configs) ==
    \E c \in configs :
        /\ Constructed
        /\ gen' = set_config(gen, c).gen
        /\ twin' = IF Twinned THEN set_config(twin, c).gen ELSE twin
        /\ result' = set_config(gen, c).result
        /\ out' = <<>> /\ twinOut' = <<>>
        /\ op' = "set_config"
        /\ origin' = IF set_config(gen, c).result = "Ok"
                     THEN [origin EXCEPT !.config = c] ELSE origin
        /\ UNCHANGED <<ctl, steps>>

SetConfig == SetConfigFrom(SetConfigs)

\* set_config while regime control is in play
SetRegimeConfig == SetConfigFrom(RegimeSetConfigs)

EnableRegimeControl ==
    \E s \in GenSchedules :
        /\ Constructed
        /\ gen' = enable_regime_control(gen, s)
        /\ twin' = IF Twinned THEN enable_regime_control(twin, s) ELSE twin
        /\ out' = <<>> /\ twinOut' = <<>>
        /\ op' = "enable_regime_control" /\ result' = "Ok"
        /\ origin' = [origin EXCEPT !.schedule = Some(s)]
        /\ UNCHANGED <<ctl, steps>>

DisableRegimeControl ==
    /\ HasController
    /\ gen' = disable_regime_control(gen)
    /\ twin' = IF Twinned THEN disable_regime_control(twin) ELSE twin
    /\ out' = <<>> /\ twinOut' = <<>>
    /\ op' = "disable_regime_control" /\ result' = "Ok"
    /\ origin' = [origin EXCEPT !.schedule = None]
    /\ UNCHANGED <<ctl, steps>>

ForceRegime ==
    \E t \in {None, Some(2)} :
        /\ Constructed
        /\ gen' = force_regime(gen, "Bear", 1, t)
        /\ twin' = IF Twinned THEN force_regime(twin, "Bear", 1, t) ELSE twin
        /\ out' = <<>> /\ twinOut' = <<>>
        /\ op' = "force_regime" /\ result' = "Ok"
        /\ Frame

AddRegimeSegment ==
    /\ Constructed
    /\ HasController
       => Len(Unwrap(gen.regime_controller).schedule.original_segments)
              < MaxSegments
    /\ gen' = add_regime_segment(gen, RegimeSegment_new("Sideways", 1))
    /\ twin' = IF Twinned THEN add_regime_segment(twin, RegimeSegment_new("Sideways", 1)) ELSE twin
    /\ out' = <<>> /\ twinOut' = <<>>
    /\ op' = "add_regime_segment" /\ result' = "Ok"
    /\ Frame

ResetRegimeSchedule ==
    /\ Constructed
    /\ gen' = reset_regime_schedule(gen)
    /\ twin' = IF Twinned THEN reset_regime_schedule(twin) ELSE twin
    /\ out' = <<>> /\ twinOut' = <<>>
    /\ op' = "reset_regime_schedule" /\ result' = "Ok"
    /\ Frame

Next ==
    \/ GenerateOhlc
    \/ GenerateSeries
    \/ GenerateTick
    \/ GenerateTicks
    \/ Reset
    \/ SetTimestamp
    \/ SetConfig

Spec == Init /\ [][Next]_vars

\* the generator under regime control
RegimeConfigs == {SeededConfig, ZeroMinConfig}

RegimeInit ==
    /\ \E c \in RegimeConfigs, now \in NowValues, entropy \in EntropyValues :
          /\ gen = with_config(c, now, entropy).gen
          /\ result = with_config(c, now, entropy).result
          /\ origin = [config |-> c, schedule |-> None]
    /\ twin = NoGenerator
    /\ out = <<>> /\ twinOut = <<>>
    /\ op = "with_config"
    /\ ctl = RegimeController_new(RegimeSchedule_new(<<>>), DefaultConfig)
    /\ steps = FreshLog

RegimeNext ==
    \/ GenerateOhlc
    \/ GenerateSeries
    \/ Reset
    \/ SetRegimeConfig
    \/ EnableRegimeControl
    \/ DisableRegimeControl
    \/ ForceRegime
    \/ AddRegimeSegment
    \/ ResetRegimeSchedule

SpecRegime == RegimeInit /\ [][RegimeNext]_vars

\* two generators constructed from one configuration, each reading the
\* wall clock and the OS entropy on its own
TwinInit ==
    /\ \E c \in GenConfigs, now \in NowValues, entropy \in EntropyValues,
           twinNow \in TwinNowValues, twinEntropy \in TwinEntropyValues :
          /\ gen = with_config(c, now, entropy).gen
          /\ twin = with_config(c, twinNow, twinEntropy).gen
          /\ result = with_config(c, now, entropy).result
          /\ origin = [config |-> c, schedule |-> None]
    /\ out = <<>> /\ twinOut = <<>>
    /\ op = "with_config"
    /\ ctl = RegimeController_new(RegimeSchedule_new(<<>>), DefaultConfig)
    /\ steps = FreshLog

SpecTwin == TwinInit /\ [][Next]_vars

(***************************************************************************)
(* Generator claims (Spec, SpecTwin, SpecRegime).                          *)
(***************************************************************************)
CandleCalls == {"generate_ohlc", "generate_series"}
TickCalls == {"generate_tick", "generate_ticks"}

\* an output without its timestamp
Data(output) == [output EXCEPT !.timestamp = 0]

DataOf(outputs) == [i \in 1..Len(outputs) |-> Data(outputs[i])]

\* the configuration the generator was last built from carries a seed
Seeded == Constructed /\ IsSome(origin.config.seed)

\* C1 as stated: two generators constructed from the same seeded
\* configuration and driven through the same calls return identical outputs
\* on every field, the timestamp included.
C1_IdenticalOnEveryField == (Twinned /\ Seeded) => out = twinOut

\* C1 amended: the two generators return the same number of outputs with
\* identical open, high, low, close and volume (ticks: price, volume, bid,
\* ask); the timestamps are identical too whenever the two generators'
\* current timestamps agree, as they do after set_timestamp.
C1_SeededTwinsAgree ==
    (Twinned /\ Seeded)
    => /\ DataOf(out) = DataOf(twinOut)
       /\ gen.current_timestamp = twin.current_timestamp => out = twinOut

C1_Witness ==
    /\ Twinned /\ Seeded /\ op = "generate_series" /\ Len(out) = 2
    /\ out[1].close # out[2].close
    /\ DataOf(out) = DataOf(twinOut)
    /\ out[1].timestamp # twinOut[1].timestamp

\* C2: every candle returned by generate_ohlc / generate_series, with or
\* without regime control and transitions, has high >= max(open, close),
\* low <= min(open, close), high >= low and all four prices > 0.
C2_OhlcConsistency ==
    op \in CandleCalls => \A i \in 1..Len(out) : is_valid(out[i])

C2_Witness ==
    /\ op = "generate_ohlc" /\ HasController
    /\ IsSome(Unwrap(gen.regime_controller).transition)
    /\ out[1].high > out[1].low
    /\ is_valid(out[1])

C8_TimestampStepping ==
    [][/\ (op = "generate_ohlc" /\ op' = "generate_ohlc")
           => out'[1].timestamp
                  = out[1].timestamp + millis(gen.config.time_interval)
       /\ (op = "generate_tick" /\ op' = "generate_tick")
           => out'[1].timestamp = out[1].timestamp + TickStepMillis
       /\ (op = "set_timestamp" /\ out' # <<>>)
           => out'[1].timestamp \in SetTimestamps]_vars

C8_Witness ==
    /\ op = "generate_ohlc" /\ gen.config = BoundedConfig
    /\ \E ms \in SetTimestamps :
           /\ out[1].timestamp = ms + millis(gen.config.time_interval)
           /\ gen.current_timestamp = ms + 2 * millis(gen.config.time_interval)

\* C9 as stated: for every validated config the candles returned by
\* generate_series(n) have strictly increasing timestamps.
C9_StrictlyIncreasing ==
    op = "generate_series"
    => \A i \in 2..Len(out) : out[i].timestamp > out[i - 1].timestamp

\* C9 amended: the candles returned by generate_series(n) come in call
\* order with timestamps that never decrease, each time_interval.millis()
\* after the one before; they strictly increase when that interval is
\* positive, and are all equal under TimeInterval::Custom(0).
C9_SeriesTimestamps ==
    op = "generate_series"
    => \A i \in 2..Len(out) :
           /\ out[i].timestamp >= out[i - 1].timestamp
           /\ out[i].timestamp
                  = out[i - 1].timestamp + millis(gen.config.time_interval)
           /\ millis(gen.config.time_interval) > 0
                  => out[i].timestamp > out[i - 1].timestamp

C9_Witness ==
    /\ op = "generate_series" /\ Len(out) = 2
    /\ gen.config.time_interval = <<"Custom", 0>>
    /\ out[2].timestamp = out[1].timestamp

\* the generator a caller gets by constructing anew from origin
FreshGenerator ==
    LET fresh == with_config(origin.config, gen.current_timestamp,
                             CHOOSE entropy \in EntropyValues : TRUE).gen
    IN  IF IsSome(origin.schedule)
        THEN enable_regime_control(fresh, Unwrap(origin.schedule))
        ELSE fresh

\* C10: for a seeded generator, with or without regime control, the first
\* candle generated after reset() matches the first candle of a freshly
\* constructed generator with the same config and seed.
C10_ResetIdempotence ==
    [][(op = "reset" /\ op' = "generate_ohlc" /\ IsSome(origin.config.seed))
       => Data(out'[1]) = Data(generate_ohlc(FreshGenerator).candle)]_vars

(***************************************************************************)
(* Schedule claims (SpecCtl).                                              *)
(***************************************************************************)
Installed == ctl.schedule.original_segments

RECURSIVE PrefixDuration(_, _)
PrefixDuration(segments, j) ==
    IF j = 0 THEN 0 ELSE segments[j].duration + PrefixDuration(segments, j - 1)

AllPositive(segments) == \A i \in 1..Len(segments) : segments[i].duration >= 1

\* the segment whose span of steps contains step n (0-based)
SegmentAt(segments, n) ==
    CHOOSE j \in 1..Len(segments) :
        PrefixDuration(segments, j - 1) <= n /\ n < PrefixDuration(segments, j)

\* C4: a non-repeating schedule with segment durations d1..dk is complete
\* after exactly d1+...+dk calls of advance().
C4_CompleteAfterTotalDuration ==
    (steps.pure /\ ~ctl.schedule.repeat
        /\ steps.n = total_duration(ctl.schedule))
    => schedule_is_complete(ctl.schedule)

\* C5: in a non-repeating schedule whose durations are all >= 1, after n
\* advance() calls with n below the total duration the current segment is the
\* one whose span [d1+..+d(j-1), d1+..+dj) contains n, and the queue holds that
\* segment and its successors in their original order.
C5_ScheduleOrdering ==
    (steps.pure /\ ~ctl.schedule.repeat /\ AllPositive(Installed)
        /\ steps.n < total_duration(ctl.schedule))
    => LET j == SegmentAt(Installed, steps.n)
       IN  /\ current_segment(ctl.schedule) = Some(Installed[j])
           /\ ctl.schedule.segments = SubSeq(Installed, j, Len(Installed))

\* C5 witness: two advance() calls have moved a two-segment schedule from its
\* first segment (duration 2) to its second.
C5_Witness ==
    /\ op = "advance" /\ steps.pure /\ ~ctl.schedule.repeat
    /\ Len(Installed) = 2 /\ AllPositive(Installed)
    /\ Installed[1].duration = 2 /\ steps.n = 2
    /\ current_segment(ctl.schedule) = Some(Installed[2])

\* C6: a repeating schedule is never complete, and after n advance() calls
\* its current segment is the one whose span contains n modulo the total
\* duration, so the segments cycle in order, each for its duration.
C6_RepeatingCycles ==
    (steps.pure /\ ctl.schedule.repeat /\ total_duration(ctl.schedule) > 0)
    => /\ ~schedule_is_complete(ctl.schedule)
       /\ current_segment(ctl.schedule) =
            Some(Installed[SegmentAt(Installed,
                                     steps.n % total_duration(ctl.schedule))])

\* C7: directly after force_regime(R, d, _) the reported current regime is R,
\* and after exactly d further advance() calls the schedule is complete.
C7_OverridePrecedence ==
    (IsSome(steps.forced) /\ steps.pure)
    => LET R == Unwrap(steps.forced)[1]
           d == Unwrap(steps.forced)[2]
       IN  /\ (steps.n = 0 => schedule_info(ctl).current_regime = Some(R))
           /\ (steps.n = d => schedule_info(ctl).is_complete)

(***************************************************************************)
(* The historical candle buffer (SpecBuffer).  Here the generator record   *)
(* carries data_buffer as well; the other specifications leave the field   *)
(* out, since none of their operations reads it.  No detector is enabled.  *)
(***************************************************************************)
BufferCap == 200

\* a mutant: the newest candle is dropped when the buffer is over its cap
RECURSIVE evict_newest(_)
evict_newest(buffer) ==
    IF Len(buffer) > BufferCap
    THEN evict_newest(SubSeq(buffer, 1, Len(buffer) - 1)) ELSE buffer

\* while self.data_buffer.len() > 200 { self.data_buffer.remove(0); }
RECURSIVE evict_oldest(_)
evict_oldest(buffer) ==
    IF Len(buffer) > BufferCap THEN evict_oldest(Tail(buffer)) ELSE buffer

update_regime_detection(g, candle) ==
    [g EXCEPT !.data_buffer = evict_oldest(Append(@, candle))]

\* generate_ohlc() built with the regimes feature: [gen, candle]
generate_ohlc_buffered(g) ==
    The({[gen |-> update_regime_detection(r.gen, r.candle), candle |-> r.candle] :
         r \in {generate_ohlc(g)}})

\* generate_series(count) built with the regimes feature: [gen, candles]
RECURSIVE generate_series_buffered(_, _)
generate_series_buffered(g, count) ==
    IF count = 0 THEN [gen |-> g, candles |-> <<>>]
    ELSE The({The({[gen |-> rest.gen, candles |-> <<first.candle>> \o rest.candles] :
                      rest \in {generate_series_buffered(first.gen, count - 1)}}) :
                 first \in {generate_ohlc_buffered(g)}})

disable_regime_detection(g) == [g EXCEPT !.data_buffer = <<>>]

BufferInit ==
    /\ \E now \in NowValues, entropy \in EntropyValues :
          gen = The({[rng |-> g.rng, config |-> g.config,
                      price_generator |-> g.price_generator,
                      current_timestamp |-> g.current_timestamp,
                      regime_controller |-> g.regime_controller,
                      data_buffer |-> <<>>] :
                     g \in {with_config(BoundedConfig, now, entropy).gen}})
    /\ twin = NoGenerator
    /\ out = <<>> /\ twinOut = <<>>
    /\ op = "with_config" /\ result = "Ok"
    /\ origin = [config |-> BoundedConfig, schedule |-> None]
    /\ ctl = RegimeController_new(RegimeSchedule_new(<<>>), DefaultConfig)
    /\ steps = FreshLog

\* candles may be generated until the buffer has been over its cap
\* MaxOutputs times
BufferGenerated(count) ==
    /\ steps.n + count <= BufferCap + MaxOutputs
    /\ steps' = [steps EXCEPT !.n = @ + count]
    /\ twin' = twin /\ twinOut' = <<>> /\ result' = "Ok"
    /\ UNCHANGED <<ctl, origin>>

BufferGenerateOhlc ==
    /\ gen' = generate_ohlc_buffered(gen).gen
    /\ out' = <<generate_ohlc_buffered(gen).candle>>
    /\ op' = "generate_ohlc"
    /\ BufferGenerated(1)

BufferGenerateSeries ==
    \E count \in 0..MaxCount :
        /\ gen' = generate_series_buffered(gen, count).gen
        /\ out' = generate_series_buffered(gen, count).candles
        /\ op' = "generate_series"
        /\ BufferGenerated(count)

\* detection is switched off once the buffer is full
DisableRegimeDetection ==
    /\ Len(gen.data_buffer) = BufferCap
    /\ gen' = disable_regime_detection(gen)
    /\ out' = <<>>
    /\ op' = "disable_regime_detection"
    /\ BufferGenerated(0)

BufferNext ==
    \/ BufferGenerateOhlc
    \/ BufferGenerateSeries
    \/ DisableRegimeDetection

SpecBuffer == BufferInit /\ [][BufferNext]_vars

(***************************************************************************)
(* src/regimes/mod.rs: RegimeTracker (SpecTracker).  ctl is the tracker    *)
(* [history, max_history, transitions], out the states recorded so far.    *)
(***************************************************************************)
RegimeState_new(regime, confidence, timestamp, price) ==
    [current_regime |-> regime, confidence |-> confidence, duration |-> 1,
     start_timestamp |-> timestamp, start_price |-> price]

RegimeTracker_new(max_history) ==
    [history |-> <<>>, max_history |-> max_history, transitions |-> 0]

\* while self.history.len() > self.max_history { self.history.pop_front(); }
RECURSIVE trim_history(_, _)
trim_history(history, max_history) ==
    IF Len(history) > max_history
    THEN trim_history(Tail(history), max_history) ELSE history

record(tracker, state) ==
    [tracker EXCEPT
       !.transitions =
           IF /\ tracker.history # <<>>
              /\ tracker.history[Len(tracker.history)].current_regime
                     # state.current_regime
           THEN @ + 1 ELSE @,
       !.history = trim_history(Append(@, state), tracker.max_history)]

TrackerCapacities == {0, 1, 2}

RecordedStates ==
    {RegimeState_new(r, 80, 1000, 10000) : r \in {"Bull", "Bear", "Sideways"}}

TrackerInit ==
    /\ ctl \in {RegimeTracker_new(m) : m \in TrackerCapacities}
    /\ out = <<>> /\ twinOut = <<>>
    /\ gen = NoGenerator /\ twin = NoGenerator
    /\ op = "new" /\ result = "Ok"
    /\ origin = NoOrigin
    /\ steps = FreshLog

TrackerRecord ==
    \E state \in RecordedStates :
        /\ steps.n < MaxSteps
        /\ ctl' = record(ctl, state)
        /\ out' = Append(out, state)
        /\ steps' = [steps EXCEPT !.n = @ + 1]
        /\ op' = "record"
        /\ UNCHANGED <<gen, twin, twinOut, result, origin>>

TrackerNext == TrackerRecord

SpecTracker == TrackerInit /\ [][TrackerNext]_vars

(***************************************************************************)
(* Specification SpecTimeline: a RegimeController that is advanced through *)
(* schedules whose segments overlap their transitions, repeat, or share a  *)
(* regime label, with segments appended on the way.  steps is the caller's *)
(* log: n counts the advance() calls, held the advance() calls made since  *)
(* the current segment became current, added the segments appended, and    *)
(* changed tells whether the advance() that made the current segment       *)
(* current changed the regime, and installed lists the segments of the     *)
(* schedule handed over last followed by the segments appended since.      *)
(***************************************************************************)
\* a Bull segment whose own configuration differs from the preset
CustomBull ==
    RegimeSegment_with_config("Bull", 1,
        [DefaultConfig EXCEPT !.trend_direction = "Bullish",
                              !.trend_strength = 90, !.volatility = 300])

TimelineSchedules ==
    {RegimeSchedule_new(<<RegimeSegment_new("Bull", 1),
                          with_transition(RegimeSegment_new("Sideways", d), 2),
                          RegimeSegment_new("Bear", 2)>>) :
        d \in 1..(MaxDuration + 1)}
    \cup {RegimeSchedule_new(<<RegimeSegment_new("Bull", 1),
                               with_transition(RegimeSegment_new("Sideways", 1), 2),
                               with_transition(RegimeSegment_new("Bear", 2), 1)>>),
          RegimeSchedule_new(<<RegimeSegment_new("Bull", 1), CustomBull,
                               RegimeSegment_new("Bear", 1)>>),
          RegimeSchedule_new(<<RegimeSegment_new("Bear", 1)>>)}
    \cup {RegimeSchedule_repeating(<<RegimeSegment_new("Bear", d)>>) :
            d \in 1..MaxDuration}

TimelineAdded == {RegimeSegment_new("Bull", 2), CustomBull}

TimelineInit ==
    /\ ctl \in {RegimeController_new(s, SeededConfig) : s \in TimelineSchedules}
    /\ steps = [n |-> 0, held |-> 0, added |-> 0, changed |-> FALSE,
                installed |-> ctl.schedule.segments]
    /\ gen = NoGenerator /\ twin = NoGenerator
    /\ out = <<>> /\ twinOut = <<>>
    /\ op = "new" /\ result = "Ok"
    /\ origin = NoOrigin

\* advance() called with schedule s moves on to the next segment
SegmentEnds(s) ==
    /\ s.segments # <<>>
    /\ s.current_segment_progress + 1 >= Head(s.segments).duration

TimelineAdvance ==
    /\ steps.n < MaxSteps
    /\ ctl' = controller_advance(ctl)
    /\ steps' = [steps EXCEPT !.n = @ + 1,
                              !.held = IF SegmentEnds(ctl.schedule)
                                       THEN 0 ELSE @ + 1,
                              !.changed =
                                  IF SegmentEnds(ctl.schedule)
                                  THEN current_regime(controller_advance(ctl))
                                           # current_regime(ctl)
                                  ELSE @]
    /\ op' = "advance"
    /\ CtlFrame

TimelineAddSegment ==
    \E segment \in TimelineAdded :
        /\ Len(ctl.schedule.original_segments) <= MaxSegments + 1
        /\ ctl' = controller_add_segment(ctl, segment)
        /\ steps' = [steps EXCEPT !.added = @ + 1,
                                  !.installed = Append(@, segment),
                                  !.held = IF ctl.schedule.segments = <<>>
                                           THEN 0 ELSE @,
                                  !.changed = IF ctl.schedule.segments = <<>>
                                              THEN FALSE ELSE @]
        /\ op' = "add_segment"
        /\ CtlFrame

TimelineReplacements ==
    {RegimeSchedule_new(<<>>),
     RegimeSchedule_new(<<RegimeSegment_new("Sideways", 1)>>)}

TimelineSetSchedule ==
    \E s \in TimelineReplacements :
        /\ ctl' = set_schedule(ctl, s)
        /\ steps' = [steps EXCEPT !.held = 0, !.added = 0, !.changed = FALSE,
                                  !.installed = s.segments]
        /\ op' = "set_schedule"
        /\ CtlFrame

TimelineReset ==
    /\ ctl' = controller_reset(ctl)
    /\ steps' = [steps EXCEPT !.held = 0, !.changed = FALSE]
    /\ op' = "reset"
    /\ CtlFrame

TimelineNext ==
    \/ TimelineAdvance
    \/ TimelineAddSegment
    \/ TimelineSetSchedule
    \/ TimelineReset

SpecTimeline == TimelineInit /\ [][TimelineNext]_vars

(***************************************************************************)
(* TransitionState on its own (SpecTransition): ctl.transition is the      *)
(* transition, ctl.current_config the configuration interpolated_config()  *)
(* returns for it, origin the arguments of TransitionState::new and        *)
(* steps.n the number of advance() calls.                                  *)
(***************************************************************************)
TransitionConfigs ==
    {default_config_for_regime(r) : r \in {"Bull", "Bear", "Sideways"}}
        \cup {SeededConfig}

TransitionDurations == 0..MaxDuration

TransitionInit ==
    /\ \E a \in TransitionConfigs, b \in TransitionConfigs,
          d \in TransitionDurations :
          /\ origin = [from |-> a, to |-> b, duration |-> d]
          /\ ctl = [RegimeController_new(RegimeSchedule_new(<<>>), a)
                      EXCEPT !.transition = Some(TransitionState_new(a, b, d)),
                             !.current_config =
                                 interpolated_config(TransitionState_new(a, b, d))]
    /\ steps = FreshLog
    /\ gen = NoGenerator /\ twin = NoGenerator
    /\ out = <<>> /\ twinOut = <<>>
    /\ op = "new" /\ result = "Ok"

\* advance() followed by interpolated_config(); one call past completion
\* is allowed, which changes nothing
TransitionAdvance ==
    /\ steps.n <= origin.duration
    /\ ctl' = The({[ctl EXCEPT !.transition = Some(a.transition),
                               !.current_config = interpolated_config(a.transition)] :
                   a \in {transition_advance(Unwrap(ctl.transition))}})
    /\ result' = IF transition_advance(Unwrap(ctl.transition)).advanced
                 THEN "true" ELSE "false"
    /\ steps' = [steps EXCEPT !.n = @ + 1]
    /\ op' = "advance"
    /\ UNCHANGED <<gen, twin, out, twinOut, origin>>

TransitionNext == TransitionAdvance

SpecTransition == TransitionInit /\ [][TransitionNext]_vars

(***************************************************************************)
(* ConfigBuilder (SpecConfig): origin.config is the configuration held by  *)
(* the builder, out holds the configuration a successful build() returns.  *)
(* The inputs are whole multiples for which the Decimal products are       *)
(* exact in hundredths.                                                    *)
(***************************************************************************)
\* GeneratorConfig::apply_smart_defaults, one adjustment after the other
smart_min_price(c) ==
    IF c.min_price = default_min_price /\ c.starting_price > 100000
    THEN [c EXCEPT !.min_price = c.starting_price \div 100] ELSE c

smart_max_price(c) ==
    IF c.max_price = default_max_price /\ c.starting_price # default_starting_price
    THEN [c EXCEPT !.max_price = c.starting_price * 100] ELSE c

smart_ordering(c) ==
    The({[c1 EXCEPT !.max_price = IF c1.max_price <= c1.starting_price
                                  THEN c1.starting_price * 2 ELSE @] :
         c1 \in {[c EXCEPT !.min_price = IF c.min_price >= c.starting_price
                                         THEN c.starting_price \div 2 ELSE @]}})

smart_volatility(c) ==
    IF c.volatility # default_volatility THEN c
    ELSE IF c.starting_price > 1000000 THEN [c EXCEPT !.volatility = 500]
    ELSE IF c.starting_price < 1000 THEN [c EXCEPT !.volatility = 50]
    ELSE c

smart_trend(c) ==
    IF c.trend_strength # 0 THEN c
    ELSE IF c.trend_direction = "Bullish" THEN [c EXCEPT !.trend_strength = 1]
    ELSE IF c.trend_direction = "Bearish" THEN [c EXCEPT !.trend_strength = -1]
    ELSE c

apply_smart_defaults(c) ==
    smart_trend(smart_volatility(smart_ordering(smart_max_price(smart_min_price(c)))))

\* ConfigBuilder::build
build(c) ==
    IF validate(c) # "Ok" THEN [config |-> None, result |-> validate(c)]
    ELSE [config |-> Some(c), result |-> "Ok"]

StartingPrices == {-100, 0, 500, 150000, 2000000}
PriceRanges == {<<0, 5000>>, <<20000, 15000>>, <<20000, 20000>>, <<15000, 20000>>}
Trends == {<<"Bullish", 0>>, <<"Bearish", 0>>, <<"Bullish", 20000>>}
Volatilities == {-1, 0}
VolumeVolatilities == {-1, 0, NaN}

ConfigInit ==
    /\ origin = [config |-> DefaultConfig, schedule |-> None]
    /\ gen = NoGenerator /\ twin = NoGenerator
    /\ out = <<>> /\ twinOut = <<>>
    /\ op = "builder" /\ result = "None"
    /\ ctl = RegimeController_new(RegimeSchedule_new(<<>>), DefaultConfig)
    /\ steps = FreshLog

\* a builder setter replaces the builder's configuration
Set(c) ==
    /\ op = "builder"
    /\ origin' = [origin EXCEPT !.config = c]
    /\ UNCHANGED <<gen, twin, out, twinOut, op, result, ctl, steps>>

BuilderStartingPrice ==
    \E p \in StartingPrices : Set([origin.config EXCEPT !.starting_price = p])

BuilderPriceRange ==
    \E r \in PriceRanges :
        Set([origin.config EXCEPT !.min_price = r[1], !.max_price = r[2]])

BuilderTrend ==
    \E t \in Trends :
        Set([origin.config EXCEPT !.trend_direction = t[1], !.trend_strength = t[2]])

BuilderVolatility ==
    \E v \in Volatilities : Set([origin.config EXCEPT !.volatility = v])

BuilderNumPoints == Set([origin.config EXCEPT !.num_points = 0])

BuilderBaseVolume == Set([origin.config EXCEPT !.base_volume = 0])

BuilderVolumeVolatility ==
    \E v \in VolumeVolatilities : Set([origin.config EXCEPT !.volume_volatility = v])

Finish(call, config, outcome) ==
    /\ op = "builder"
    /\ op' = call /\ result' = outcome /\ out' = config
    /\ UNCHANGED <<gen, twin, twinOut, origin, ctl, steps>>

Validate == Finish("validate", <<>>, validate(origin.config))

ApplySmartDefaults ==
    Finish("apply_smart_defaults", Some(apply_smart_defaults(origin.config)), "None")

Build == Finish("build", build(origin.config).config, build(origin.config).result)

ConfigNext ==
    \/ BuilderStartingPrice
    \/ BuilderPriceRange
    \/ BuilderTrend
    \/ BuilderVolatility
    \/ BuilderNumPoints
    \/ BuilderBaseVolume
    \/ BuilderVolumeVolatility
    \/ Validate
    \/ ApplySmartDefaults
    \/ Build

SpecConfig == ConfigInit /\ [][ConfigNext]_vars

(***************************************************************************)
(* src/server: the generator registry and its request handlers             *)
(* (SpecServer).  gen is the AppState: generators holds every generator    *)
(* created so far (its index is the identity of the Arc), registry maps a  *)
(* symbol to the index of its generator (0: no entry), registry_lock and   *)
(* locks hold the task that owns each write lock.  steps maps each task to *)
(* its position in its handler, out lists the candles in the order they    *)
(* were generated.  The server's with_config returns the generator.        *)
(***************************************************************************)
Free == "free"
Tasks == {"t1", "t2", "t3"}
Symbols == {"A", "B"}

\* the handlers each client task calls: a REST client asks for series, a
\* subscriber streams candles, an administrator configures and deletes
\* symbols
TaskKinds(t) ==
    IF t = "t1" THEN {"generate"}
    ELSE IF t = "t2" THEN {"stream"}
    ELSE {"configure", "delete"}

\* a mutant: the write lock is handed out while another task holds it
write_always_available(holder) == TRUE

\* RwLock::write().await returns once no other task holds the lock
write_available(holder) == holder = Free

AppState_new ==
    [generators |-> <<>>, registry |-> [sym \in Symbols |-> 0],
     registry_lock |-> Free, locks |-> <<>>]

\* Arc::new(RwLock::new(MarketDataGenerator::with_config(config)))
new_generator(state, config, now, entropy) ==
    [state EXCEPT !.generators = Append(@, with_config(config, now, entropy).gen),
                  !.locks = Append(@, Free)]

\* a mutant: a generator is inserted whether or not the symbol has one
entry_always_inserted(state, symbol, now, entropy) ==
    [new_generator(state, DefaultConfig, now, entropy)
        EXCEPT !.registry[symbol] = Len(state.generators) + 1]

\* generators.entry(symbol).or_insert_with(..)
entry_or_insert_with(state, symbol, now, entropy) ==
    IF state.registry[symbol] # 0 THEN state
    ELSE [new_generator(state, DefaultConfig, now, entropy)
            EXCEPT !.registry[symbol] = Len(state.generators) + 1]

\* a mutant: the registry guard outlives get_or_create_generator
registry_guard_kept(task) == task

\* the registry guard is dropped when get_or_create_generator returns
registry_guard_dropped(task) == Free

\* get_or_create_generator from the point where the registry lock is held:
\* [state, handle]
get_or_create_generator(state, task, symbol, now, entropy) ==
    The({[state |-> [s1 EXCEPT !.registry_lock = registry_guard_dropped(task)],
          handle |-> s1.registry[symbol]] :
         s1 \in {entry_or_insert_with(state, symbol, now, entropy)}})

\* create_generator_with_config from the point where the lock is held
create_generator_with_config(state, symbol, config, now, entropy) ==
    [new_generator(state, config, now, entropy)
        EXCEPT !.registry[symbol] = Len(state.generators) + 1,
               !.registry_lock = Free]

\* remove_generator from the point where the lock is held
remove_generator(state, symbol) ==
    [state EXCEPT !.registry[symbol] = 0, !.registry_lock = Free]

IdleTask ==
    [pc |-> "idle", kind |-> "none", symbol |-> "A", handle |-> 0,
     remaining |-> 0, epoch |-> 0]

\* candles that running requests will still generate
RECURSIVE Outstanding(_, _)
Outstanding(tasks, ts) ==
    IF ts = {} THEN 0
    ELSE The({tasks[t].remaining + Outstanding(tasks, ts \ {t}) :
              t \in {CHOOSE u \in ts : TRUE}})

\* registry changes that made earlier handles of a symbol stale
Epoch(symbol) == twinOut[symbol]

ServerInit ==
    /\ gen = AppState_new
    /\ steps = [t \in Tasks |-> IdleTask]
    /\ out = <<>>
    /\ twinOut = [sym \in Symbols |-> 0]
    /\ twin = NoGenerator
    /\ op = "new" /\ result = "Ok"
    /\ origin = NoOrigin
    /\ ctl = RegimeController_new(RegimeSchedule_new(<<>>), DefaultConfig)

ServerFrame == UNCHANGED <<twin, result, origin, ctl>>

\* a request arrives: generate_data (count candles), stream_data or a
\* WebSocket subscription (one candle per round), configure_generator,
\* delete_symbol
Request ==
    \E t \in Tasks, symbol \in Symbols,
       kind \in {"generate", "stream", "configure", "delete"},
       count \in 1..MaxCount :
        /\ steps[t].pc = "idle"
        /\ kind \in TaskKinds(t)
        /\ kind \in {"configure", "delete"} => count = 1
        /\ kind = "stream" => count = 1
        /\ kind \in {"generate", "stream"}
           => Len(out) + Outstanding(steps, Tasks) + count <= MaxOutputs
        /\ steps' = [steps EXCEPT ![t] =
                        [pc |-> "registry_wait", kind |-> kind, symbol |-> symbol,
                         handle |-> 0,
                         remaining |-> IF kind \in {"generate", "stream"}
                                       THEN count ELSE 0,
                         epoch |-> 0]]
        /\ op' = "request"
        /\ UNCHANGED <<gen, out, twinOut>>
        /\ ServerFrame

\* self.generators.write().await
AcquireRegistry ==
    \E t \in Tasks :
        /\ steps[t].pc = "registry_wait"
        /\ write_available(gen.registry_lock)
        /\ gen' = [gen EXCEPT !.registry_lock = t]
        /\ steps' = [steps EXCEPT ![t].pc = "registry_held"]
        /\ op' = "registry_write"
        /\ UNCHANGED <<out, twinOut>>
        /\ ServerFrame

GetOrCreateGenerator ==
    \E t \in Tasks, now \in NowValues, entropy \in EntropyValues :
        /\ steps[t].pc = "registry_held"
        /\ steps[t].kind \in {"generate", "stream"}
        /\ gen' = get_or_create_generator(gen, t, steps[t].symbol, now, entropy).state
        /\ steps' = [steps EXCEPT
                       ![t].pc = "generator_wait",
                       ![t].handle =
                           get_or_create_generator(gen, t, steps[t].symbol,
                                                   now, entropy).handle,
                       ![t].epoch = Epoch(steps[t].symbol)]
        /\ op' = "get_or_create_generator"
        /\ UNCHANGED <<out, twinOut>>
        /\ ServerFrame

CreateGeneratorWithConfig ==
    \E t \in Tasks, now \in NowValues, entropy \in EntropyValues :
        /\ steps[t].pc = "registry_held"
        /\ steps[t].kind = "configure"
        /\ gen' = create_generator_with_config(gen, steps[t].symbol, SeededConfig,
                                               now, entropy)
        /\ steps' = [steps EXCEPT ![t].pc = "done"]
        /\ twinOut' = [twinOut EXCEPT ![steps[t].symbol] = @ + 1]
        /\ op' = "create_generator_with_config"
        /\ UNCHANGED out
        /\ ServerFrame

RemoveGenerator ==
    \E t \in Tasks :
        /\ steps[t].pc = "registry_held"
        /\ steps[t].kind = "delete"
        /\ gen' = remove_generator(gen, steps[t].symbol)
        /\ steps' = [steps EXCEPT ![t].pc = "done"]
        /\ twinOut' = [twinOut EXCEPT ![steps[t].symbol] = @ + 1]
        /\ op' = "remove_generator"
        /\ UNCHANGED out
        /\ ServerFrame

\* generator.write().await
AcquireGenerator ==
    \E t \in Tasks :
        /\ steps[t].pc = "generator_wait"
        /\ write_available(gen.locks[steps[t].handle])
        /\ gen' = [gen EXCEPT !.locks[steps[t].handle] = t]
        /\ steps' = [steps EXCEPT ![t].pc = "generating"]
        /\ op' = "generator_write"
        /\ UNCHANGED <<out, twinOut>>
        /\ ServerFrame

\* one round of the loop of generate_series, or the generate_ohlc of a
\* stream or subscription, under the generator's write lock
GenerateUnderLock ==
    \E t \in Tasks :
        /\ steps[t].pc = "generating"
        /\ steps[t].remaining > 0
        /\ gen' = [gen EXCEPT !.generators[steps[t].handle] =
                                  generate_ohlc(@).gen]
        /\ out' = Append(out,
                         [generator |-> steps[t].handle, task |-> t,
                          timestamp |->
                              generate_ohlc(gen.generators[steps[t].handle])
                                  .candle.timestamp])
        /\ steps' = [steps EXCEPT ![t].remaining = @ - 1]
        /\ op' = "generate_ohlc"
        /\ UNCHANGED twinOut
        /\ ServerFrame

\* the write guard is dropped; a stream or subscription either goes on to
\* its next round or ends with its connection
ReleaseGenerator ==
    \E t \in Tasks, again \in BOOLEAN :
        /\ steps[t].pc = "generating"
        /\ steps[t].remaining = 0
        /\ again => /\ steps[t].kind = "stream"
                    /\ Len(out) + Outstanding(steps, Tasks) < MaxOutputs
        /\ gen' = [gen EXCEPT !.locks[steps[t].handle] = Free]
        /\ steps' = [steps EXCEPT
                       ![t].pc = IF again THEN "generator_wait" ELSE "done",
                       ![t].remaining = IF again THEN 1 ELSE 0]
        /\ op' = "release"
        /\ UNCHANGED <<out, twinOut>>
        /\ ServerFrame

ServerNext ==
    \/ Request
    \/ AcquireRegistry
    \/ GetOrCreateGenerator
    \/ CreateGeneratorWithConfig
    \/ RemoveGenerator
    \/ AcquireGenerator
    \/ GenerateUnderLock
    \/ ReleaseGenerator

SpecServer == ServerInit /\ [][ServerNext]_vars

\* a step of a request that has been accepted
ServerProgress ==
    \/ AcquireRegistry
    \/ GetOrCreateGenerator
    \/ CreateGeneratorWithConfig
    \/ RemoveGenerator
    \/ AcquireGenerator
    \/ GenerateUnderLock
    \/ ReleaseGenerator

(***************************************************************************)
(* Configuration claims.                                                   *)
(***************************************************************************)
\* the validator invariants as the specification lists them; NaN is not
\* greater than or equal to zero
ValidatorInvariants(c) ==
    /\ c.starting_price > 0
    /\ 0 < c.min_price /\ c.min_price < c.max_price
    /\ c.volatility >= 0
    /\ c.trend_strength >= -RateScale /\ c.trend_strength <= RateScale
    /\ c.num_points > 0
    /\ c.base_volume > 0
    /\ c.volume_volatility # NaN /\ c.volume_volatility >= 0

\* C11: with_config and set_config return an error whenever the
\* configuration violates a validator invariant; a failing set_config leaves
\* the generator's config, kernel price, PRNG state and timestamp exactly as
\* they were; no output is produced under a rejected configuration.
C11_FailureSemantics ==
    /\ (op = "with_config" /\ ~ValidatorInvariants(origin.config))
       => (~Constructed /\ result # "Ok")
    /\ [][/\ (op' = "set_config" /\ result' = "Ok")
             => ValidatorInvariants(gen'.config)
          /\ (op' = "set_config" /\ result' # "Ok")
             => /\ gen'.config = gen.config
                /\ gen'.price_generator = gen.price_generator
                /\ gen'.rng = gen.rng
                /\ gen'.current_timestamp = gen.current_timestamp
          /\ out' # <<>> => ValidatorInvariants(gen.config)]_vars

\* the error of the first violated rule, in the order the rules are listed
FirstViolatedRule(c) ==
    IF ~(c.starting_price > 0) THEN "InvalidPrice"
    ELSE IF ~(0 < c.min_price /\ c.min_price < c.max_price) THEN "InvalidPrice"
    ELSE IF ~(c.volatility >= 0) THEN "InvalidVolatility"
    ELSE IF ~(c.trend_strength >= -RateScale /\ c.trend_strength <= RateScale)
    THEN "InvalidTrend"
    ELSE IF ~(c.num_points > 0) THEN "InvalidParameter"
    ELSE IF ~(c.base_volume > 0) THEN "InvalidParameter"
    ELSE IF ~(c.volume_volatility # NaN /\ c.volume_volatility >= 0)
    THEN "InvalidVolatility"
    ELSE "Ok"

\* C12: validate() returns Ok exactly when every validator invariant holds,
\* and otherwise the error that matches the first violated rule.
C12_ValidateExactly ==
    op = "validate"
    => /\ (result = "Ok") <=> ValidatorInvariants(origin.config)
       /\ result = FirstViolatedRule(origin.config)

\* C13: build() applies the smart defaults and then validates; the
\* configuration it returns is the smart-defaulted one.
C13_BuildAppliesSmartDefaults ==
    op = "build"
    => /\ result = validate(apply_smart_defaults(origin.config))
       /\ result = "Ok" => out = Some(apply_smart_defaults(origin.config))

(***************************************************************************)
(* Transition claims (SpecTransition).                                     *)
(***************************************************************************)
\* the advance steps the transition has taken
StepsTaken == Min(steps.n, origin.duration)

\* value = from + (to - from) * s / D, up to one unit of the representation
Interpolates(value, from, to, s, D) ==
    /\ D * (value - from) - (to - from) * s < D
    /\ (to - from) * s - D * (value - from) < D

\* C14: after s advance steps of a transition of duration D >= 1 from A to
\* B, the interpolated volatility is A.vol + (B.vol - A.vol) * s / D and the
\* interpolated trend strength A.strength + (B.strength - A.strength) * s / D;
\* at s = D both equal B's values.
C14_LinearInterpolation ==
    origin.duration > 0
    => /\ Unwrap(ctl.transition).current_step = StepsTaken
       /\ Interpolates(ctl.current_config.volatility, origin.from.volatility,
                       origin.to.volatility, StepsTaken, origin.duration)
       /\ Interpolates(ctl.current_config.trend_strength,
                       origin.from.trend_strength, origin.to.trend_strength,
                       StepsTaken, origin.duration)
       /\ StepsTaken = origin.duration
          => /\ ctl.current_config.volatility = origin.to.volatility
             /\ ctl.current_config.trend_strength = origin.to.trend_strength

C14_Witness ==
    /\ op = "advance" /\ origin.duration = 2 /\ steps.n = 1
    /\ origin.from.volatility = 150 /\ origin.to.volatility = 250
    /\ ctl.current_config.volatility = 200
    /\ ctl.current_config.trend_strength = 60

(***************************************************************************)
(* Controller frame claims (SpecCtl).                                      *)
(***************************************************************************)
InheritedFields ==
    {"starting_price", "min_price", "max_price", "time_interval",
     "num_points", "seed", "base_volume", "volume_volatility"}

\* C15: regime control changes only trend_direction, trend_strength and
\* volatility: after any sequence of controller operations every other field
\* of current_config equals the corresponding field of base_config.
C15_OnlyRegimeFieldsChange ==
    \A f \in InheritedFields : ctl.current_config[f] = ctl.base_config[f]

C15_Witness ==
    /\ op = "advance" /\ IsSome(ctl.transition)
    /\ Unwrap(ctl.transition).current_step >= 1
    /\ ctl.current_config.volatility # ctl.base_config.volatility
    /\ IsSome(current_segment(ctl.schedule))
    /\ Unwrap(current_segment(ctl.schedule)).config.seed # ctl.base_config.seed
    /\ ctl.current_config.seed = ctl.base_config.seed

(***************************************************************************)
(* Generator under regime control (SpecRegime).                            *)
(***************************************************************************)
\* C16: when generate_ohlc rebuilds the kernel from the controller's
\* configuration, the walk continues from the price the kernel had reached:
\* the candle opens at the kernel's price before the call.
C16_PricePreservedAcrossRebuild ==
    [][(op' = "generate_ohlc" /\ HasController)
       => out'[1].open = gen.price_generator.current_price]_vars

RegimeCalls == {"force_regime", "add_regime_segment", "reset_regime_schedule"}

\* C17: with regime control disabled, force_regime, add_regime_segment and
\* reset_regime_schedule leave the generator unchanged, and
\* regime_control_info() stays None.
C17_NoOpWhenDisabled ==
    [][(Constructed /\ ~HasController /\ op' \in RegimeCalls)
       => /\ gen' = gen
          /\ regime_control_info(gen') = None]_vars

C17_Witness ==
    /\ Constructed /\ ~HasController /\ op = "force_regime"
    /\ gen.price_generator.current_price # gen.config.starting_price
    /\ regime_control_info(gen) = None

\* C18: after any sequence of advance, add_segment, force_regime and reset,
\* schedule_info().current_segment_progress lies in [0, 1].
C18_ProgressInUnitInterval ==
    /\ schedule_info(ctl).current_segment_progress[2] > 0
    /\ schedule_info(ctl).current_segment_progress[1] >= 0
    /\ schedule_info(ctl).current_segment_progress[1]
           <= schedule_info(ctl).current_segment_progress[2]

(***************************************************************************)
(* Detection claims (SpecBuffer, SpecTracker).                             *)
(***************************************************************************)
\* the last n elements of a sequence
LastN(s, n) == SubSeq(s, Max(1, Len(s) - n + 1), Len(s))

\* C19: data_buffer never holds more than 200 candles; each generate call
\* appends its candles in generation order and keeps the most recent 200,
\* the oldest being evicted.
C19_BufferKeepsLast200 ==
    /\ [](Len(gen.data_buffer) <= BufferCap)
    /\ [][op' \in CandleCalls
          => gen'.data_buffer = LastN(gen.data_buffer \o out', BufferCap)]_vars

C19_Witness ==
    /\ op = "generate_series" /\ Len(out) = 2
    /\ Len(gen.data_buffer) = BufferCap
    /\ gen.data_buffer[BufferCap] = out[2]
    /\ gen.data_buffer[1].timestamp
           = 1000 + 2 * millis(gen.config.time_interval)

\* the positions of a sequence of states whose regime differs from the
\* regime of the state before
RegimeChanges(states) ==
    {i \in 2..Len(states) :
        states[i].current_regime # states[i - 1].current_regime}

\* C20: RegimeTracker.transitions equals the number of positions in the
\* sequence of recorded states at which the regime differs from the regime
\* of the previously recorded state; the first record never counts.
C20_TransitionsCountChanges ==
    ctl.transitions = Cardinality(RegimeChanges(out))


(***************************************************************************)
(* Server claims.                                                          *)
(***************************************************************************)
\* tasks whose get_or_create_generator call has returned
Callers == {t \in Tasks : steps[t].handle # 0}

\* C21: get_or_create_generator calls for one symbol that race with each
\* other (no configure or delete of that symbol between them) all return
\* the same generator, which is the one the registry holds for the symbol
\* until the entry is replaced or removed.
C21_OneGeneratorPerSymbol ==
    \A t \in Callers :
        /\ \A u \in Callers :
               (steps[u].symbol = steps[t].symbol /\ steps[u].epoch = steps[t].epoch)
               => steps[u].handle = steps[t].handle
        /\ steps[t].epoch = Epoch(steps[t].symbol)
           => gen.registry[steps[t].symbol] = steps[t].handle

\* two callers that asked for the same symbol while neither had an answer
\* hold the one generator that exists
C21_Witness ==
    /\ Len(gen.generators) = 1
    /\ \E t, u \in Callers :
           /\ t # u
           /\ steps[t].symbol = steps[u].symbol
           /\ steps[t].pc = "generator_wait" /\ steps[u].pc = "generator_wait"
           /\ steps[t].handle = 1 /\ steps[u].handle = 1


\* tasks inside the critical section of generator h
Generating(h) == {t \in Tasks : steps[t].pc = "generating" /\ steps[t].handle = h}

\* C22: a task generates only while it owns the generator's write lock, so
\* two tasks are never inside generation on the same generator, and the
\* candles of one generate_data request are consecutive outputs of its
\* generator: no candle of another task lies between two of them.
C22_GenerationIsExclusive ==
    /\ \A h \in 1..Len(gen.generators) :
           /\ Cardinality(Generating(h)) <= 1
           /\ \A t \in Generating(h) : gen.locks[h] = t
    /\ \A i, j, k \in 1..Len(out) :
           (/\ i < j /\ j < k
            /\ out[i].task = out[k].task
            /\ steps[out[i].task].kind = "generate"
            /\ out[j].generator = out[i].generator)
           => out[j].task = out[i].task

\* a request for two candles was served while another client generated on
\* the same generator
C22_Witness ==
    \E i, j, k \in 1..Len(out) :
        /\ j = i + 1 /\ k \notin {i, j}
        /\ out[i].task = out[j].task /\ out[k].task # out[i].task
        /\ steps[out[i].task].kind = "generate"
        /\ out[k].generator = out[i].generator
        /\ out[j].generator = out[i].generator
        /\ out[j].timestamp > out[i].timestamp


\* the locks task t owns or waits for
HoldsRegistry(t) == gen.registry_lock = t
Active(t) == steps[t].pc \notin {"idle", "done"}

\* C23: the owner of the registry lock neither owns nor waits for a
\* generator lock, the owner of a generator lock waits for nothing, and no
\* interleaving deadlocks: as long as a request is under way, some task
\* can make its next step.
C23_NoLockNesting ==
    /\ \A t \in Tasks :
           /\ HoldsRegistry(t) => steps[t].pc = "registry_held"
           /\ (/\ steps[t].pc = "generator_wait"
               /\ ~write_available(gen.locks[steps[t].handle]))
              => steps[gen.locks[steps[t].handle]].pc = "generating"
    /\ (\E t \in Tasks : Active(t)) => ENABLED ServerProgress

\* symbol B's generator is handed out while symbol A's generator is locked
\* and generating
C23_Witness ==
    \E t, u \in Tasks :
        /\ steps[t].pc = "generating" /\ steps[t].symbol = "A"
        /\ steps[t].remaining > 0
        /\ steps[u].symbol = "B" /\ op = "get_or_create_generator"
        /\ steps[u].pc = "generator_wait" /\ steps[u].handle # steps[t].handle


(***************************************************************************)
(* Schedule and transition claims.                                         *)
(***************************************************************************)
\* the parameters a regime governs
RegimeFields(config) ==
    <<config.trend_direction, config.trend_strength, config.volatility>>

\* what merge(base, segment.config) makes effective
SegmentFields(c, segment) ==
    RegimeFields(merge_configs(c.base_config, segment.config))

NoTransition(segment) ==
    \/ segment.transition_duration = None
    \/ segment.transition_duration = Some(0)

\* C24: while the current segment is one that advance() entered by a change
\* of regime and that has no transition, the trend direction, trend
\* strength and volatility of current_config are those of
\* merge(base, segment.config), from the step of the change on.
C24_ImmediateChangeSticks ==
    (/\ steps.changed
     /\ ctl.schedule.segments # <<>>
     /\ NoTransition(Head(ctl.schedule.segments)))
    => RegimeFields(ctl.current_config)
           = SegmentFields(ctl, Head(ctl.schedule.segments))


\* the segment that governs data point k (counted from 1) of a list of
\* segments, None past the end
RECURSIVE GoverningSegment(_, _)
GoverningSegment(segments, k) ==
    IF segments = <<>> THEN None
    ELSE IF k <= Head(segments).duration THEN Some(Head(segments))
    ELSE GoverningSegment(Tail(segments), k - Head(segments).duration)

\* the schedule handed to enable_regime_control is still the controller's,
\* it has no transitions and does not repeat
PlainScheduleInForce ==
    /\ HasController
    /\ IsSome(origin.schedule)
    /\ ~Unwrap(origin.schedule).repeat
    /\ Unwrap(gen.regime_controller).schedule.original_segments
           = Unwrap(origin.schedule).segments
    /\ \A i \in 1..Len(Unwrap(origin.schedule).segments) :
           NoTransition(Unwrap(origin.schedule).segments[i])

\* C25: under regime control without transitions the k-th candle is
\* generated with the trend and volatility of the segment j for which
\* d1+...+d(j-1) < k <= d1+...+dj, k being the number of data points the
\* controller has been advanced for.
C25_DurationCountsCandles ==
    (/\ PlainScheduleInForce
     /\ op \in CandleCalls /\ out # <<>>
     /\ IsSome(GoverningSegment(Unwrap(origin.schedule).segments,
                         Unwrap(gen.regime_controller).schedule.total_progress)))
    => RegimeFields(gen.price_generator.config)
         = SegmentFields(Unwrap(gen.regime_controller),
               Unwrap(GoverningSegment(Unwrap(origin.schedule).segments,
                      Unwrap(gen.regime_controller).schedule.total_progress)))


\* one advance() seen from a stored transition t of duration D: before its
\* D-th step it stays stored, one step further; on its D-th step it is
\* cleared and current_config carries the target's parameters
TransitionRunsItsCourse ==
    (op' = "advance" /\ IsSome(ctl.transition))
    => IF Unwrap(ctl.transition).current_step + 1 < Unwrap(ctl.transition).duration
       THEN ctl'.transition =
                Some([Unwrap(ctl.transition) EXCEPT !.current_step = @ + 1])
       ELSE /\ ~schedule_info(ctl').in_transition
            /\ RegimeFields(ctl'.current_config)
                   = RegimeFields(Unwrap(ctl.transition).to_config)

\* C26: a transition installed with duration D >= 1 is active from the step
\* that installs it until exactly D further advance() calls have been made;
\* on the D-th it is cleared and current_config has the target's trend
\* direction, trend strength and volatility.  While a transition is stored,
\* 0 <= current_step < duration.
C26_TransitionLastsItsDuration ==
    /\ [](IsSome(ctl.transition)
            => /\ 0 <= Unwrap(ctl.transition).current_step
               /\ Unwrap(ctl.transition).current_step
                      < Unwrap(ctl.transition).duration)
    /\ [][TransitionRunsItsCourse]_vars


\* C27: during a transition of duration D >= 1 the interpolated trend
\* direction is the source configuration's while progress =
\* current_step / D is below 0.5, and the target configuration's once
\* progress is 0.5 or more.
C27_DirectionSwitchesAtMidpoint ==
    origin.duration > 0
    => /\ Unwrap(ctl.transition).current_step = StepsTaken
       /\ 2 * StepsTaken < origin.duration
          => ctl.current_config.trend_direction = origin.from.trend_direction
       /\ 2 * StepsTaken >= origin.duration
          => ctl.current_config.trend_direction = origin.to.trend_direction

\* halfway through a two-step transition from Bull to Bear the direction
\* is already Bearish
C27_Witness ==
    /\ op = "advance" /\ origin.duration = 2 /\ steps.n = 1
    /\ origin.from.trend_direction = "Bullish"
    /\ origin.to.trend_direction = "Bearish"
    /\ ctl.current_config.trend_direction = "Bearish"
    /\ ctl.current_config.trend_strength # origin.to.trend_strength


\* the transition duration handed to the force_regime call that has just
\* returned (0 when it was None)
ForcedTransition == Unwrap(Head(ctl.schedule.segments).transition_duration)

\* C28: directly after force_regime(R, d, Some(t)) with t >= 1 a transition
\* of t steps towards R's preset is active and the effective parameters are
\* still those in force before the call, so that R's trend strength and
\* volatility are reached only t steps later.
C28_ForceRegimeHonoursTransition ==
    (op = "force_regime" /\ ForcedTransition >= 1)
    => /\ schedule_info(ctl).in_transition
       /\ Unwrap(ctl.transition).duration = ForcedTransition
       /\ Unwrap(ctl.transition).current_step = 0
       /\ RegimeFields(Unwrap(ctl.transition).to_config)
              = SegmentFields(ctl, Head(ctl.schedule.segments))
       /\ ctl.current_config = Unwrap(ctl.transition).from_config


\* the current segment is one that add_segment appended
CurrentIsAppended ==
    /\ ctl.schedule.segments # <<>>
    /\ Len(ctl.schedule.segments) <= steps.added

\* an advance() that ends an appended segment is the last of exactly
\* `duration` calls made while the segment was current
AppendedSegmentEndsOnTime ==
    (op' = "advance" /\ CurrentIsAppended /\ SegmentEnds(ctl.schedule))
    => steps.held + 1 = Head(ctl.schedule.segments).duration

\* C29: a segment appended with add_segment is current for exactly its
\* duration in advance() steps, at whatever moment it was appended, also
\* after the schedule had completed and advance() had been called further.
C29_AppendedSegmentLastsItsDuration == [][AppendedSegmentEndsOnTime]_vars


\* an advance() that moves the schedule on to a next segment leaves that
\* segment's parameters in current_config, or a fresh transition towards
\* them
NextSegmentTakesEffect ==
    (op' = "advance" /\ SegmentEnds(ctl.schedule) /\ ctl'.schedule.segments # <<>>)
    => \/ RegimeFields(ctl'.current_config)
              = SegmentFields(ctl', Head(ctl'.schedule.segments))
       \/ /\ ~NoTransition(Head(ctl'.schedule.segments))
          /\ IsSome(ctl'.transition)
          /\ Unwrap(ctl'.transition).current_step = 0
          /\ RegimeFields(Unwrap(ctl'.transition).to_config)
                 = SegmentFields(ctl', Head(ctl'.schedule.segments))

\* C30: whenever the schedule advances from one segment to the next, the
\* next segment's trend direction, trend strength and volatility become the
\* effective parameters, directly or through its transition, also when both
\* segments carry the same regime label with different configurations and
\* when a repeating schedule consists of a single segment.
C30_NextSegmentTakesEffect == [][NextSegmentTakesEffect]_vars


(***************************************************************************)
(* Configuration under regime control (SpecRegime).                        *)
(***************************************************************************)
\* the fields of a configuration that regimes do not govern
UngovernedFields ==
    {"time_interval", "min_price", "max_price", "starting_price",
     "base_volume", "volume_volatility", "seed"}

\* C31: once set_config(cfg) has succeeded, config() returns cfg's
\* time_interval, min_price, max_price, starting_price, base_volume,
\* volume_volatility and seed after every later call, also when regime
\* control is enabled and candles are generated.
C31_SetConfigSurvivesRegimeControl ==
    (Constructed /\ origin.config \in RegimeSetConfigs)
    => \A f \in UngovernedFields : gen.config[f] = origin.config[f]


(***************************************************************************)
(* Controller reset (SpecTimeline).                                        *)
(***************************************************************************)
\* a controller constructed over the given segments
FreshController(segments, repeat, base_config) ==
    RegimeController_new([RegimeSchedule_new(segments) EXCEPT !.repeat = repeat],
                         base_config)

\* reset() leaves the controller as one freshly constructed over the
\* segments installed last and appended since
ResetRoundTrip ==
    op' = "reset"
    => /\ ctl'.schedule.segments = steps.installed
       /\ ctl'.schedule.current_segment_progress = 0
       /\ ctl'.schedule.total_progress = 0
       /\ steps.installed # <<>> => ~schedule_info(ctl').is_complete
       /\ ~schedule_info(ctl').in_transition
       /\ steps.installed # <<>>
          => ctl'.current_config
                 = merge_configs(ctl.base_config, steps.installed[1].config)
       /\ ctl' = FreshController(steps.installed, ctl.schedule.repeat,
                                 ctl.base_config)

\* C32: after reset(), in any controller state, the schedule holds the
\* segments of the schedule installed last followed by the segments added
\* since, with segment progress 0, total progress 0, not complete when that
\* list is non-empty, no transition, and current_config = merge(base, first
\* segment's config): the state of a freshly constructed controller over
\* those segments.
C32_ResetRoundTrip == [][ResetRoundTrip]_vars


\* C32, amended: after reset() the schedule holds the segments installed
\* last followed by those added since, progress and total progress are 0
\* and no transition is stored; when that list is non-empty the controller
\* equals a freshly constructed one over it, and when it is empty
\* current_config is left as it was.
C32_ResetRoundTripNonEmpty ==
    [][op' = "reset"
       => /\ ctl'.schedule.segments = steps.installed
          /\ ctl'.schedule.current_segment_progress = 0
          /\ ctl'.schedule.total_progress = 0
          /\ ~schedule_info(ctl').in_transition
          /\ IF steps.installed # <<>>
             THEN /\ ~schedule_info(ctl').is_complete
                  /\ ctl' = FreshController(steps.installed, ctl.schedule.repeat,
                                            ctl.base_config)
             ELSE ctl'.current_config = ctl.current_config]_vars

\* reset() has rewound a schedule that was advanced and extended
C32_Witness ==
    /\ op = "reset" /\ steps.n >= 2 /\ steps.added >= 1
    /\ Len(steps.installed) >= 2
    /\ ctl = FreshController(steps.installed, ctl.schedule.repeat, ctl.base_config)


(***************************************************************************)
(* src/regimes/statistics.rs: RollingStatistics (SpecStats).  ctl is the   *)
(* RollingStatistics value, out the prices handed to update since the last *)
(* reset (the caller's own record), steps the number of calls made.        *)
(* Returns are Decimal quotients in the program; here they are integers    *)
(* counting basis points, so a squared return counts 1e-8.                 *)
(***************************************************************************)
MaxCalls == 5        \* update and reset calls made on one RollingStatistics

RollingStatistics_new(window_size) ==
    [window_size |-> window_size, price_buffer |-> <<>>, return_buffer |-> <<>>,
     price_sum |-> 0, return_sum |-> 0, return_sum_squared |-> 0]

\* (price - last_price) / last_price, or zero after a zero price
return_val(price, last_price) ==
    IF last_price # 0 THEN ((price - last_price) * RateScale) \div last_price
    ELSE 0

\* the running sum once the value leaving the window is taken out of it
sum_keeps_evicted(sum, old) == sum

sum_after_eviction(sum, old) == sum - old

push_return(s, r) ==
    The({IF Len(pushed.return_buffer) > s.window_size
         THEN [pushed EXCEPT
                 !.return_buffer = Tail(@),
                 !.return_sum = sum_after_eviction(@, Head(pushed.return_buffer)),
                 !.return_sum_squared =
                     sum_after_eviction(@, Head(pushed.return_buffer)
                                           * Head(pushed.return_buffer))]
         ELSE pushed
         : pushed \in {[s EXCEPT !.return_buffer = Append(@, r),
                                 !.return_sum = @ + r,
                                 !.return_sum_squared = @ + r * r]}})

push_price(s, price) ==
    The({IF Len(pushed.price_buffer) > s.window_size
         THEN [pushed EXCEPT
                 !.price_buffer = Tail(@),
                 !.price_sum = sum_after_eviction(@, Head(pushed.price_buffer))]
         ELSE pushed
         : pushed \in {[s EXCEPT !.price_buffer = Append(@, price),
                                 !.price_sum = @ + price]}})

stats_update(s, price) ==
    push_price(IF s.price_buffer # <<>>
               THEN push_return(s, return_val(price,
                                    s.price_buffer[Len(s.price_buffer)]))
               ELSE s,
               price)

stats_reset(s) ==
    [s EXCEPT !.price_buffer = <<>>, !.return_buffer = <<>>,
              !.price_sum = 0, !.return_sum = 0, !.return_sum_squared = 0]

is_ready(s) == Len(s.return_buffer) >= s.window_size \div 2

StatsWindows == {0, 1, 2, 3}

StatsPrices == {0, 10000, 10200}

StatsInit ==
    /\ \E w \in StatsWindows : ctl = RollingStatistics_new(w)
    /\ out = <<>>
    /\ steps = 0
    /\ op = "new"
    /\ gen = 0 /\ twin = 0 /\ twinOut = 0 /\ result = 0 /\ origin = 0

StatsFrame == UNCHANGED <<gen, twin, twinOut, result, origin>>

StatsUpdate ==
    /\ steps < MaxCalls
    /\ \E price \in StatsPrices :
         /\ ctl' = stats_update(ctl, price)
         /\ out' = Append(out, price)
    /\ steps' = steps + 1
    /\ op' = "update"
    /\ StatsFrame

StatsReset ==
    /\ steps < MaxCalls
    /\ ctl' = stats_reset(ctl)
    /\ out' = <<>>
    /\ steps' = steps + 1
    /\ op' = "reset"
    /\ StatsFrame

StatsNext == StatsUpdate \/ StatsReset

SpecStats == StatsInit /\ [][StatsNext]_vars

(***************************************************************************)
(* The window of RollingStatistics (SpecStats).                            *)
(***************************************************************************)
SquaresOf(s) == [i \in 1..Len(s) |-> s[i] * s[i]]

\* the returns between consecutive prices of a record
ReturnsOf(prices) ==
    [i \in 1..(Len(prices) - 1) |-> return_val(prices[i + 1], prices[i])]

\* C36: after any sequence of update and reset calls each buffer holds at
\* most window_size entries, the most recent ones in order (the last
\* window_size prices fed since the last reset, and the last window_size
\* returns between consecutive ones of them), and the three running sums
\* equal the sum of the prices, of the returns and of the squared returns
\* held.  With window_size 0 the price buffer is always empty, so no return
\* is ever computed.
C36_WindowInvariants ==
    /\ Len(ctl.price_buffer) <= ctl.window_size
    /\ Len(ctl.return_buffer) <= ctl.window_size
    /\ ctl.price_buffer = LastN(out, ctl.window_size)
    /\ ctl.return_buffer =
           IF ctl.window_size = 0 THEN <<>>
           ELSE LastN(ReturnsOf(out), ctl.window_size)
    /\ ctl.price_sum = SumSeq(ctl.price_buffer)
    /\ ctl.return_sum = SumSeq(ctl.return_buffer)
    /\ ctl.return_sum_squared = SumSeq(SquaresOf(ctl.return_buffer))

\* an update has pushed a price and a return out of a full window of
\* non-zero returns
C36_Witness ==
    /\ op = "update"
    /\ ctl.window_size = 2
    /\ Len(out) > 3
    /\ Len(ctl.return_buffer) = 2
    /\ ctl.return_sum # 0
    /\ ReturnsOf(out)[1] # 0


(***************************************************************************)
(* src/regimes/volatility.rs: VolatilityRegimeDetector fed through update  *)
(* (SpecDetector).  ctl is the detector, twin the RegimeTracker the        *)
(* generator records into, origin the RegimeConfig handed to update, out   *)
(* the candles fed, result the Option<RegimeState> the last update         *)
(* returned, twinOut the (regime, confidence) pair that update classified  *)
(* the candle with (None when it returned early), gen the detector before  *)
(* the last update.  Confidence, volatility, momentum and the Sharpe ratio *)
(* count basis points (0.5 is 5000).                                       *)
(***************************************************************************)
MaxCandles == 11     \* candles fed to one detector

Abs(x) == IF x < 0 THEN -x ELSE x

\* Newton's iteration of sqrt_approximation; it stops within 1e-6 of the
\* root in the program, here at the integer root
RECURSIVE newton(_, _)
newton(value, x) ==
    The({IF y >= x THEN x ELSE newton(value, y)
         : y \in {(x + value \div x) \div 2}})

sqrt_approximation(value) == IF value <= 0 THEN 0 ELSE newton(value, value)

mean_return(s) ==
    IF s.return_buffer = <<>> THEN 0
    ELSE s.return_sum \div Len(s.return_buffer)

std_dev(s) ==
    IF Len(s.return_buffer) < 2 THEN 0
    ELSE sqrt_approximation(
             Abs(s.return_sum_squared \div Len(s.return_buffer)
                 - mean_return(s) * mean_return(s)))

momentum(s) ==
    IF Len(s.price_buffer) < 2 THEN 0
    ELSE return_val(s.price_buffer[Len(s.price_buffer)], s.price_buffer[1])

\* mean * periods / (std_dev * sqrt(periods)) for 252 periods a year, whose
\* root sqrt_approximation gives as 15.8745
sharpe_ratio(s) ==
    The({IF vol = 0 THEN 0 ELSE (mean_return(s) * 252 * RateScale) \div vol
         : vol \in {(std_dev(s) * 158745) \div RateScale}})

calculate_sma(closes) ==
    IF closes = <<>> THEN 0 ELSE SumSeq(closes) \div Len(closes)

identify_trend(closes, short_period, long_period) ==
    IF Len(closes) < long_period THEN "Sideways"
    ELSE The({IF difference > 100 THEN "Bull"
              ELSE IF difference < -100 THEN "Bear"
              ELSE "Sideways"
              : difference \in
                  {return_val(calculate_sma(LastN(closes, short_period)),
                              calculate_sma(LastN(closes, long_period)))}})

to_market_regime(vol_regime, trend_direction) ==
    CASE vol_regime \in {"Low", "Normal"} -> trend_direction
      [] vol_regime = "High" ->
            IF trend_direction = "Bear" THEN "Bear" ELSE "Sideways"
      [] vol_regime = "Extreme" -> "Bear"

VolatilityPercentiles_default ==
    [low |-> 50, normal |-> 100, high |-> 200, extreme |-> 400]

VolatilityRegimeDetector_new(window_size) ==
    [stats |-> RollingStatistics_new(window_size),
     volatility_buffer |-> <<>>,
     current_state |-> None,
     max_buffer_size |-> window_size,
     vol_percentiles |-> VolatilityPercentiles_default]

classify_volatility(d, volatility) ==
    IF volatility < d.vol_percentiles.low THEN "Low"
    ELSE IF volatility < d.vol_percentiles.normal THEN "Normal"
    ELSE IF volatility < d.vol_percentiles.high THEN "High"
    ELSE "Extreme"

update_percentiles(d) ==
    IF Len(d.volatility_buffer) < 20 THEN d
    ELSE The({[d EXCEPT !.vol_percentiles =
                 [low |-> sorted[(Len(sorted) * 25) \div 100 + 1],
                  normal |-> sorted[(Len(sorted) * 50) \div 100 + 1],
                  high |-> sorted[(Len(sorted) * 75) \div 100 + 1],
                  extreme |-> sorted[(Len(sorted) * 90) \div 100 + 1]]]
              : sorted \in {SortSeq(d.volatility_buffer,
                                    LAMBDA a, b : a < b)}})

\* the final regime of detect_regime for two candles or more
final_regime(d, closes) ==
    The({IF vol_regime = "Extreme" THEN "Bear"
         ELSE IF momentum(d.stats) > 500 /\ vol_regime # "High" THEN "Bull"
         ELSE IF momentum(d.stats) < -500 /\ vol_regime # "High" THEN "Bear"
         ELSE to_market_regime(vol_regime, identify_trend(closes, 5, 20))
         : vol_regime \in {classify_volatility(d, std_dev(d.stats))}})

\* the confidence of detect_regime for two candles or more
rule_confidence(d) ==
    The({Min(RateScale, Max(0,
             5000
             + (CASE vol_regime = "Low" -> 2000
                  [] vol_regime = "Normal" -> 1000
                  [] vol_regime = "High" -> -1000
                  [] vol_regime = "Extreme" -> -2000)
             + (IF Abs(sharpe_ratio(d.stats)) > RateScale THEN 1500 ELSE 0)))
         : vol_regime \in {classify_volatility(d, std_dev(d.stats))}})

detect_regime(d, closes) ==
    IF Len(closes) < 2 THEN <<"Sideways", 5000>>
    ELSE <<final_regime(d, closes), rule_confidence(d)>>

\* the length of the run of volatilities, newest first, in one regime
RECURSIVE persistence_count(_, _, _)
persistence_count(d, vols, vol_regime) ==
    IF vols = <<>> \/ classify_volatility(d, vols[Len(vols)]) # vol_regime
    THEN 0
    ELSE 1 + persistence_count(d, SubSeq(vols, 1, Len(vols) - 1), vol_regime)

analyze_clustering(d) ==
    IF Len(d.volatility_buffer) < 10 THEN 0
    ELSE (persistence_count(d, LastN(d.volatility_buffer, 10),
              classify_volatility(d,
                  d.volatility_buffer[Len(d.volatility_buffer)]))
          * RateScale) \div 10

duration_kept(state) == state

increment_duration(state) == [state EXCEPT !.duration = @ + 1]

should_transition(state, new_regime, new_confidence) ==
    \/ new_regime # state.current_regime /\ new_confidence > 6000
    \/ state.confidence < 3000

transition(state, new_regime, confidence, timestamp, price) ==
    [state EXCEPT !.current_regime = new_regime, !.confidence = confidence,
                  !.duration = 1, !.start_timestamp = timestamp,
                  !.start_price = price]

\* update as far as the readiness test: the statistics and the volatility
\* buffer take the candle
take_candle(d, candle) ==
    The({[d EXCEPT !.stats = stats,
                   !.volatility_buffer =
                       IF Len(@) + 1 > d.max_buffer_size
                       THEN Tail(Append(@, std_dev(stats)))
                       ELSE Append(@, std_dev(stats))]
         : stats \in {stats_update(d.stats, candle.close)}})

refresh_percentiles(d) ==
    IF Len(d.volatility_buffer) >= 20 /\ Len(d.volatility_buffer) % 10 = 0
    THEN update_percentiles(d) ELSE d

\* the (regime, confidence) update classifies a candle with: detect_regime
\* over the candle alone, then the clustering boost
classify_recent(d, candle) ==
    The({<<rc[1], ((rc[2] + analyze_clustering(d) \div 10) * 10) \div 11>>
         : rc \in {detect_regime(d, <<candle.close>>)}})

\* "Update or transition state"
apply_classification(d, regime, confidence, candle, config) ==
    IF IsSome(d.current_state)
    THEN The({[d EXCEPT !.current_state =
                 IF should_transition(state, regime, confidence)
                 THEN Some(transition(state, regime, confidence,
                                      candle.timestamp, candle.close))
                 ELSE IF state.current_regime = regime
                 THEN Some([increment_duration(state) EXCEPT
                              !.confidence = (state.confidence + confidence)
                                             \div 2])
                 ELSE @]
              : state \in {Unwrap(d.current_state)}})
    ELSE IF confidence >= config.min_confidence
    THEN [d EXCEPT !.current_state =
            Some(RegimeState_new(regime, confidence, candle.timestamp,
                                 candle.close))]
    ELSE d

\* VolatilityRegimeDetector::update: the detector afterwards, the state
\* returned and the classification made on the way
detector_update(d, candle, config) ==
    The({IF ~is_ready(taken.stats)
         THEN [detector |-> taken, state |-> None, classified |-> None]
         ELSE The({[detector |-> after, state |-> after.current_state,
                    classified |-> Some(rc)]
                   : after \in {apply_classification(refresh_percentiles(taken),
                                    rc[1], rc[2], candle, config)}})
         : <<taken, rc>> \in
             {<<t, classify_recent(refresh_percentiles(t), candle)>>
              : t \in {take_candle(d, candle)}}})

RegimeConfig_default ==
    [lookback_period |-> 20, bull_threshold |-> 200, bear_threshold |-> -200,
     min_confidence |-> 6000, use_volatility |-> TRUE, window_size |-> 20]

\* MarketDataGenerator::current_regime over the generator's tracker
tracker_current(tracker) ==
    IF tracker.history = <<>> THEN None
    ELSE Some(tracker.history[Len(tracker.history)])

DetectorWindows == {2, 10}

\* the default configuration, which the generator always uses, and one
\* that asks for less confidence
DetectorConfigs ==
    {RegimeConfig_default, [RegimeConfig_default EXCEPT !.min_confidence = 4000]}

DetectorCloses == {10000, 10500}

CandleAt(n, close) == [close |-> close, timestamp |-> n * 60000]

DetectorInit ==
    /\ \E w \in DetectorWindows : ctl = VolatilityRegimeDetector_new(w)
    /\ origin \in DetectorConfigs
    /\ twin = RegimeTracker_new(1000)
    /\ gen = ctl
    /\ out = <<>>
    /\ result = None
    /\ twinOut = None
    /\ steps = 0
    /\ op = "new"

\* update_regime_detection with a detector enabled: the detector takes the
\* candle and the tracker records the state it returns
DetectorUpdate ==
    /\ steps < MaxCandles
    /\ \E close \in DetectorCloses :
         \E r \in {detector_update(ctl, CandleAt(steps + 1, close), origin)} :
             /\ ctl' = r.detector
             /\ result' = r.state
             /\ twinOut' = r.classified
             /\ twin' = IF IsSome(r.state) THEN record(twin, Unwrap(r.state))
                        ELSE twin
             /\ out' = Append(out, CandleAt(steps + 1, close))
    /\ gen' = ctl
    /\ steps' = steps + 1
    /\ op' = "update"
    /\ UNCHANGED origin

DetectorNext == DetectorUpdate

SpecDetector == DetectorInit /\ [][DetectorNext]_vars


(***************************************************************************)
(* Online detection (SpecDetector).                                        *)
(***************************************************************************)
\* what the last of the updates with the candles of closes, numbered from
\* n, returns under the generator's configuration
RECURSIVE feed(_, _, _)
feed(d, closes, n) ==
    The({IF Len(closes) = 1 THEN r
         ELSE feed(r.detector, Tail(closes), n + 1)
         : r \in {detector_update(d, CandleAt(n, Head(closes)),
                                  RegimeConfig_default)}})

CandleRuns == [1..MaxCandles -> DetectorCloses]

\* C33: for a detector the generator has just enabled there is a run of
\* candles whose last update finds the rolling statistics ready and returns
\* a regime state, which the tracker then reports as the current regime.
C33_OnlineDetectionProducesState ==
    (op = "new" /\ origin = RegimeConfig_default) =>
        \E closes \in CandleRuns :
            \E r \in {feed(ctl, closes, 1)} :
                is_ready(r.detector.stats) /\ IsSome(r.state)

\* under the generator's configuration no update returns a state and the
\* tracker stays empty
NoStateUnderDefault ==
    origin = RegimeConfig_default =>
        result = None /\ tracker_current(twin) = None

\* the closes of the rolling window after the last update
WindowCloses == ctl.stats.price_buffer

\* C34: an update that classifies its candle gives it the regime the final
\* rules give for the rolling window: Bear under Extreme volatility, Bull
\* or Bear for a momentum beyond 5% either way when volatility is not High,
\* and the volatility-adjusted SMA trend otherwise.
C34_UpdateAppliesFinalRules ==
    (op = "update" /\ IsSome(twinOut)) =>
        Unwrap(twinOut)[1] = final_regime(ctl, WindowCloses)

C37_DriftSignFollowsDirection ==
    (op = "apply_smart_defaults" /\ origin.config.trend_strength = 0) =>
        \E drift \in {calculate_drift(Unwrap(out))} :
            /\ origin.config.trend_direction = "Bullish" => drift > 0
            /\ origin.config.trend_direction = "Bearish" => drift < 0
            /\ origin.config.trend_direction = "Sideways" => drift = 0


(***************************************************************************)
(* Streams and the registry (SpecServer).                                  *)
(***************************************************************************)
\* C39: every candle a stream or subscription generates for a symbol comes
\* from the generator the registry holds for that symbol at that moment;
\* once create_generator_with_config or remove_generator has changed the
\* symbol's entry, a stream that took its handle before generates nothing
\* more from the generator it holds.
C39_StreamsFollowRegistry ==
    [][(op' = "generate_ohlc" /\ Len(out') > Len(out)) =>
          \E c \in {out'[Len(out')]} :
              steps[c.task].kind = "stream" =>
                  /\ c.generator = gen.registry[steps[c.task].symbol]
                  /\ steps[c.task].epoch = Epoch(steps[c.task].symbol)]_vars


(***************************************************************************)
(* src/server/websocket.rs: handle_socket (SpecSocket).  gen is one        *)
(* connection: subscriptions is the Vec of (symbol, JoinHandle), tasks     *)
(* lists every subscription task spawned (a JoinHandle is its index) with  *)
(* its symbol and whether it still runs, channel is the unbounded mpsc     *)
(* queue between the tasks and the socket loop.  out lists the responses   *)
(* written to the socket, steps counts the client messages handled.        *)
(***************************************************************************)
MaxMessages == 3     \* client messages handled on one connection

handle_socket_new == [subscriptions |-> <<>>, tasks |-> <<>>, channel |-> <<>>]

\* handle.abort() on every subscription of the symbol
RECURSIVE abort_all(_, _, _)
abort_all(tasks, subscriptions, symbol) ==
    IF subscriptions = <<>> THEN tasks
    ELSE abort_all(IF Head(subscriptions).symbol = symbol
                   THEN [tasks EXCEPT ![Head(subscriptions).handle].running = FALSE]
                   ELSE tasks,
                   Tail(subscriptions), symbol)

\* subscriptions.retain(..): the subscriptions of the symbol are aborted
\* and dropped from the Vec
retain_others(conn, symbol) ==
    [conn EXCEPT !.tasks = abort_all(@, conn.subscriptions, symbol),
                 !.subscriptions = SelectSeq(@, LAMBDA s : s.symbol # symbol)]

\* tokio::spawn of the subscription task and subscriptions.push
spawn_subscription(conn, symbol) ==
    [conn EXCEPT !.tasks = Append(@, [symbol |-> symbol, running |-> TRUE]),
                 !.subscriptions =
                     Append(@, [symbol |-> symbol, handle |-> Len(conn.tasks) + 1])]

\* one round of a subscription task: the candle is generated and the
\* MarketData message goes into the channel
task_round(conn, handle) ==
    [conn EXCEPT !.channel =
        Append(@, [kind |-> "MarketData", symbol |-> conn.tasks[handle].symbol,
                   task |-> handle])]

SocketInit ==
    /\ gen = handle_socket_new
    /\ out = <<>>
    /\ steps = 0
    /\ op = "Welcome"
    /\ twin = 0 /\ twinOut = 0 /\ result = 0 /\ ctl = 0 /\ origin = 0

SocketFrame == UNCHANGED <<twin, twinOut, result, ctl, origin>>

\* WsMessage::Subscribe
Subscribe ==
    \E symbol \in Symbols :
        /\ steps < MaxMessages
        /\ gen' = spawn_subscription(retain_others(gen, symbol), symbol)
        /\ out' = Append(out, [kind |-> "Subscribed", symbol |-> symbol,
                               task |-> Len(gen.tasks) + 1])
        /\ steps' = steps + 1
        /\ op' = "Subscribe"
        /\ SocketFrame

\* WsMessage::Unsubscribe
Unsubscribe ==
    \E symbol \in Symbols :
        /\ steps < MaxMessages
        /\ gen' = retain_others(gen, symbol)
        /\ out' = Append(out, [kind |-> "Unsubscribed", symbol |-> symbol,
                               task |-> 0])
        /\ steps' = steps + 1
        /\ op' = "Unsubscribe"
        /\ SocketFrame

\* a subscription task that has not been aborted runs one round of its loop
TaskRound ==
    \E handle \in 1..Len(gen.tasks) :
        /\ gen.tasks[handle].running
        /\ Len(gen.channel) + Len(out) < MaxMessages + MaxOutputs
        /\ gen' = task_round(gen, handle)
        /\ op' = "tx.send"
        /\ UNCHANGED <<out, steps>>
        /\ SocketFrame

\* Some(msg) = rx.recv(): the oldest queued message is written to the socket
Forward ==
    /\ gen.channel # <<>>
    /\ out' = Append(out, Head(gen.channel))
    /\ gen' = [gen EXCEPT !.channel = Tail(@)]
    /\ op' = "rx.recv"
    /\ UNCHANGED steps
    /\ SocketFrame

SocketNext == Subscribe \/ Unsubscribe \/ TaskRound \/ Forward

SpecSocket == SocketInit /\ [][SocketNext]_vars

(***************************************************************************)
(* Subscriptions on one connection (SpecSocket).                           *)
(***************************************************************************)
\* the last Subscribed or Unsubscribed response for the symbol written
\* before position j of the socket log (0: none)
LastAnswer(j, symbol) ==
    The({IF answers = {} THEN 0 ELSE CHOOSE i \in answers :
                                        \A k \in answers : k <= i
         : answers \in {{i \in 1..(j - 1) :
                           /\ out[i].symbol = symbol
                           /\ out[i].kind \in {"Subscribed", "Unsubscribed"}}}})

\* C38: every MarketData message written to the socket follows a Subscribed
\* response for its symbol with no Unsubscribed for it in between, and was
\* produced by the task of that latest subscription.
C38_NoDataAfterUnsubscribed ==
    \A j \in 1..Len(out) :
        out[j].kind = "MarketData" =>
            \E i \in {LastAnswer(j, out[j].symbol)} :
                /\ i # 0
                /\ out[i].kind = "Subscribed"
                /\ out[i].task = out[j].task

====
